---------------------------- MODULE Spec2Model ----------------------------
(***************************************************************************)
(* A model of the normalization / weekly-ledger / derived-metric core of   *)
(* yahoo-fantasy-stats: the season classifier and the cache store          *)
(* (cache_manager.py), the transaction ledger builder, the beats-the-field *)
(* calculator and the cached fetch operations (yahoo_fantasy_api.py).      *)
(*                                                                         *)
(* The module holds several specifications over disjoint groups of         *)
(* variables; a specification leaves the variables of the other groups at  *)
(* their idle value.                                                       *)
(*   SpecClassifier  CacheManager.is_prior_season on drawn league infos    *)
(*   SpecBeats       the beats-the-field percentages of drawn scoreboards  *)
(*   SpecLedger      the weekly ledger of drawn transaction lists          *)
(*   SpecCache       the cached fetch operations on a cache that starts    *)
(*                   empty, with the clock and the season moving forward   *)
(*   SpecMapper      the nickname mapper with its CSV file, edited by hand *)
(*                   while the process runs                                *)
(*   SpecFaults      one fetch operation while endpoints of the provider   *)
(*                   raise, or on a cache directory with a damaged file    *)
(*   SpecClear       CacheManager.clear on entries of two leagues          *)
(*   SpecRequest     one _make_request call against a drawn script of      *)
(*                   session and token-refresh outcomes                    *)
(*   SpecParsers     the entity parsers on the list and the numeric-keyed  *)
(*                   map encoding of one payload                           *)
(*   SpecApp         two requests to the index page of app.py, served by   *)
(*                   two threads of the web server                         *)
(***************************************************************************)
EXTENDS Integers, Sequences, FiniteSets, TLC

VARIABLES
    cls_info,     \* classifier: the league_info dictionary handed to is_prior_season
    cls_now,      \* classifier: datetime.now() as [year, month]
    cls_verdict,  \* classifier: "unset", or the last verdict "prior" / "active"
    cls_past,     \* classifier: the verdicts returned so far, each with its date
    beat_df,      \* beats-the-field: the weekly matchup table (a sequence of rows)
    beat_out,     \* beats-the-field: <<>> or the table with the percentage columns
    beat_exp,     \* beats-the-field: <<>> or the league info and expected stats
    led_info,     \* ledger: the league info the provider returns
    led_tx,       \* ledger: the parsed transaction list, in the provider's order
    led_req,      \* ledger: the start_week / end_week arguments of the call
    led_out,      \* ledger: what get_all_teams_weekly_stats returned
    c_now,        \* cache: datetime.now() as [year, month]
    c_info,       \* cache: the league info the provider currently returns
    c_cache,      \* cache: the cache directory, (league_key, data_type) -> entry
    c_mappings,   \* cache: ManagerNicknameMapper.mappings
    c_op,         \* cache: the last fetch operation, its arguments, log and result
    m_file,       \* mapper: the rows of manager_nicknames.csv, key -> manager_nickname
    m_mappings,   \* mapper: ManagerNicknameMapper.mappings of the running process
    m_op,         \* mapper: the last operation, its arguments and what it returned
    m_prev,       \* mapper: the operation before the last one
    rq_call,      \* request: arguments and provider script of one _make_request call
    rq_out,       \* request: what the call did: requests sent, refreshes made, result
    ps_in,        \* parsers: the parser called, the records of the payload and where they sit
    ps_out,       \* parsers: what the parser returned for each encoding of the payload
    app_globals,  \* app: the module globals league_info, team_stats_df, weekly_df of app.py
    app_req       \* app: each index request: its league, its position, its locals and its response

clsVars == <<cls_info, cls_now, cls_verdict, cls_past>>

beatVars == <<beat_df, beat_out, beat_exp>>

ledVars == <<led_info, led_tx, led_req, led_out>>

cacheVars == <<c_now, c_info, c_cache, c_mappings, c_op>>

mapVars == <<m_file, m_mappings, m_op, m_prev>>

reqVars == <<rq_call, rq_out>>

parseVars == <<ps_in, ps_out>>

appVars == <<app_globals, app_req>>

vars == <<cls_info, cls_now, cls_verdict, cls_past, beat_df, beat_out, beat_exp,
          led_info, led_tx, led_req, led_out,
          c_now, c_info, c_cache, c_mappings, c_op,
          m_file, m_mappings, m_op, m_prev,
          rq_call, rq_out,
          ps_in, ps_out,
          app_globals, app_req>>

\* The idle values a specification gives the groups it does not use.
IdleClassifier ==
    /\ cls_info = << >> /\ cls_now = [year |-> 0, month |-> 0] /\ cls_verdict = "unset"
    /\ cls_past = {}

IdleBeats == beat_df = << >> /\ beat_out = << >> /\ beat_exp = << >>

IdleLedger ==
    led_info = << >> /\ led_tx = << >> /\ led_req = << >> /\ led_out = << >>

IdleCache ==
    /\ c_now = [year |-> 0, month |-> 0]
    /\ c_info = << >>
    /\ c_cache = << >>
    /\ c_mappings = << >>
    /\ c_op = << >>

IdleMapper ==
    m_file = << >> /\ m_mappings = << >> /\ m_op = << >> /\ m_prev = << >>

IdleRequest == rq_call = << >> /\ rq_out = << >>

IdleParsers == ps_in = << >> /\ ps_out = << >>

IdleApp == app_globals = << >> /\ app_req = << >>

---------------------------------------------------------------------------
(* Python values.  A dictionary is a function from the keys it holds to    *)
(* their values; the provider sends scalars as strings ("2023", "17").     *)

\* Python's None, as dict.get returns it for a key the dictionary lacks.
None == "<None>"

\* The non-numeric sentinel the parsers use for a value the payload omitted.
NA == "N/A"

\* dict.get(key) and dict.get(key, default)
dict_get(d, k) == IF k \in DOMAIN d THEN d[k] ELSE None

dict_get_default(d, k, default) == IF k \in DOMAIN d THEN d[k] ELSE default

\* Truth value of a scalar: None and the empty string are falsy.
Truthy(v) == v /= None /\ v /= ""

\* The numbers that appear as decimal strings in the model: week numbers,
\* the game id of a league key and season years.
Numerals == (0..40) \cup {461} \cup (2020..2029)

\* int(s) of a decimal string; int_ok(s) is FALSE where int(s) raises
\* ValueError / TypeError (None, "", "N/A").
NumeralOf ==
    [s \in {ToString(n) : n \in Numerals} |-> CHOOSE n \in Numerals : ToString(n) = s]

int_ok(s) == s \in DOMAIN NumeralOf

int(s) == NumeralOf[s]

---------------------------------------------------------------------------
(* CacheManager.is_prior_season (cache_manager.py 186-233)                 *)

\* A plausible slip: the season-end month threshold taken as ">= 2".
is_prior_season_month_off(league_info, now) ==
    IF DOMAIN league_info = {} THEN FALSE
    ELSE LET season == dict_get(league_info, "season") IN
         IF ~Truthy(season) THEN FALSE
         ELSE IF ~int_ok(season) THEN FALSE
         ELSE LET season_year == int(season) IN
              IF season_year < now.year - 1 THEN TRUE
              ELSE IF season_year = now.year - 1 /\ now.month >= 2 THEN TRUE
              ELSE LET current_week == dict_get(league_info, "current_week")
                       end_week == dict_get(league_info, "end_week")
                   IN  IF Truthy(current_week) /\ Truthy(end_week)
                       THEN IF int_ok(current_week) /\ int_ok(end_week)
                            THEN int(current_week) >= int(end_week)
                            ELSE FALSE
                       ELSE FALSE

\* A plausible slip: a missing week field defaulted to 0 before the
\* comparison, as in int(current_week or 0) >= int(end_week or 0).
is_prior_season_default_weeks(league_info, now) ==
    IF DOMAIN league_info = {} THEN FALSE
    ELSE LET season == dict_get(league_info, "season") IN
         IF ~Truthy(season) THEN FALSE
         ELSE IF ~int_ok(season) THEN FALSE
         ELSE LET season_year == int(season) IN
              IF season_year < now.year - 1 THEN TRUE
              ELSE IF season_year = now.year - 1 /\ now.month > 2 THEN TRUE
              ELSE LET current_week == dict_get(league_info, "current_week")
                       end_week == dict_get(league_info, "end_week")
                       cw == IF Truthy(current_week) THEN current_week ELSE "0"
                       ew == IF Truthy(end_week) THEN end_week ELSE "0"
                   IN  IF int_ok(cw) /\ int_ok(ew)
                       THEN int(cw) >= int(ew)
                       ELSE FALSE

\* A plausible slip: only the season of the year before counts as old, the
\* rule for seasons more than a year old left out.
is_prior_season_last_year_only(league_info, now) ==
    IF DOMAIN league_info = {} THEN FALSE
    ELSE LET season == dict_get(league_info, "season") IN
         IF ~Truthy(season) THEN FALSE
         ELSE IF ~int_ok(season) THEN FALSE
         ELSE LET season_year == int(season) IN
              IF season_year = now.year - 1 /\ now.month > 2 THEN TRUE
              ELSE LET current_week == dict_get(league_info, "current_week")
                       end_week == dict_get(league_info, "end_week")
                   IN  IF Truthy(current_week) /\ Truthy(end_week)
                       THEN IF int_ok(current_week) /\ int_ok(end_week)
                            THEN int(current_week) >= int(end_week)
                            ELSE FALSE
                       ELSE FALSE

is_prior_season(league_info, now) ==
    IF DOMAIN league_info = {} THEN FALSE                     \* if not league_info
    ELSE LET season == dict_get(league_info, "season") IN
         IF ~Truthy(season) THEN FALSE                        \* if not season
         ELSE IF ~int_ok(season) THEN FALSE                   \* except (ValueError, TypeError)
         ELSE LET season_year == int(season) IN
              IF season_year < now.year - 1 THEN TRUE
              ELSE IF season_year = now.year - 1 /\ now.month > 2 THEN TRUE
              ELSE LET current_week == dict_get(league_info, "current_week")
                       end_week == dict_get(league_info, "end_week")
                   IN  IF Truthy(current_week) /\ Truthy(end_week)
                       THEN IF int_ok(current_week) /\ int_ok(end_week)
                            THEN int(current_week) >= int(end_week)
                            ELSE FALSE                        \* except: pass
                       ELSE FALSE

---------------------------------------------------------------------------
(* SpecClassifier: is_prior_season applied to drawn league infos and dates *)

\* The field values the classifier is tried on: a numeric string, the
\* non-numeric sentinel, the empty string; a missing key is a smaller domain.
SeasonValues == {"2023", "2024", "2025", "2026", NA, ""}

WeekValues == {"1", "2", "3", NA}

ClassifierKeys == {"season", "current_week", "end_week"}

ClassifierInfos ==
    UNION { [ks -> SeasonValues \cup WeekValues] : ks \in SUBSET ClassifierKeys }

WellTypedInfo(d) ==
    /\ "season" \in DOMAIN d => d["season"] \in SeasonValues
    /\ "current_week" \in DOMAIN d => d["current_week"] \in WeekValues
    /\ "end_week" \in DOMAIN d => d["end_week"] \in WeekValues

ClockYears == {2025, 2026}

ClockMonths == {2, 3}

\* The clock only moves forward.
ClockLater(a, b) == a.year < b.year \/ (a.year = b.year /\ a.month < b.month)

InitClassifier ==
    /\ cls_info \in {d \in ClassifierInfos : WellTypedInfo(d)}
    /\ cls_now \in [year : ClockYears, month : ClockMonths]
    /\ cls_verdict = "unset"
    /\ cls_past = {}
    /\ IdleBeats
    /\ IdleLedger
    /\ IdleCache
    /\ IdleMapper
    /\ IdleRequest
    /\ IdleParsers
    /\ IdleApp

Classify ==
    /\ cls_verdict' = IF is_prior_season(cls_info, cls_now) THEN "prior" ELSE "active"
    /\ cls_past' = cls_past \cup {[now |-> cls_now, verdict |-> cls_verdict']}
    /\ UNCHANGED <<cls_info, cls_now, beatVars, ledVars, cacheVars, mapVars, reqVars, parseVars, appVars>>

ClassifierTick ==
    /\ \E t \in [year : ClockYears, month : ClockMonths] :
          /\ ClockLater(cls_now, t)
          /\ cls_now' = t
    /\ cls_verdict' = "unset"
    /\ UNCHANGED <<cls_info, cls_past, beatVars, ledVars, cacheVars, mapVars, reqVars, parseVars, appVars>>

NextClassifier == Classify \/ ClassifierTick

SpecClassifier == InitClassifier /\ [][NextClassifier]_vars

---------------------------------------------------------------------------
(* Sequence helpers                                                        *)

\* The values of a sequence in order of first appearance (pandas unique()).
RECURSIVE Unique(_)
Unique(s) ==
    IF s = << >> THEN << >>
    ELSE LET h == Head(s)
         IN  <<h>> \o Unique(SelectSeq(Tail(s), LAMBDA x : x /= h))

\* The concatenation of the sequences of a sequence
RECURSIVE Concat(_)
Concat(ss) == IF ss = << >> THEN << >> ELSE Head(ss) \o Concat(Tail(ss))

---------------------------------------------------------------------------
(* YahooFantasyAPI._add_record_percentage_vs_all_to_weekly_df              *)
(* (yahoo_fantasy_api.py 1940-2051).  Scores are whole points; a           *)
(* percentage is the exact fraction n / d, so that 100 * beaten /          *)
(* (total - 1) is kept without rounding.                                   *)

\* float(str(points).replace('N/A', '0')) if points != 'N/A' else 0.0,
\* with 0.0 on ValueError / TypeError.
points_to_float(points) ==
    IF points /= NA THEN (IF int_ok(points) THEN int(points) ELSE 0) ELSE 0

\* The two team-week records a matchup row contributes.
team_week_points_of_row(row) ==
    << [week |-> row.week, team_key |-> row.team1_key,
        points |-> points_to_float(row.team1_points)],
       [week |-> row.week, team_key |-> row.team2_key,
        points |-> points_to_float(row.team2_points)] >>

team_week_points(df) == Concat([i \in 1..Len(df) |-> team_week_points_of_row(df[i])])

\* A plausible slip: a team "beats" every score not above its own, itself
\* and the teams it ties with included.
record_pct_counting_ties(team_points, week_points) ==
    LET total_teams == Len(week_points)
        teams_beaten == Cardinality({i \in DOMAIN week_points : team_points >= week_points[i]})
    IN  IF total_teams <= 1 THEN [n |-> 0, d |-> 1]
        ELSE [n |-> teams_beaten * 100, d |-> total_teams - 1]

\* record_pct of one team given the scores of its week (lines 2007-2014)
record_pct(team_points, week_points) ==
    LET total_teams == Len(week_points)
        teams_beaten == Cardinality({i \in DOMAIN week_points : team_points > week_points[i]})
    IN  IF total_teams <= 1 THEN [n |-> 0, d |-> 1]
        ELSE [n |-> teams_beaten * 100, d |-> total_teams - 1]

\* record_percentages: one record per team-week, week by week (1991-2020)
record_percentages(df) ==
    LET twp == team_week_points(df)
        weeks == Unique([i \in 1..Len(twp) |-> twp[i].week])
        OfWeek(week) ==
            LET week_data == SelectSeq(twp, LAMBDA r : r.week = week)
                week_points == [i \in 1..Len(week_data) |-> week_data[i].points]
            IN  [i \in 1..Len(week_data) |->
                    [week |-> week,
                     team_key |-> week_data[i].team_key,
                     record_percentage_vs_all |->
                         record_pct(week_data[i].points, week_points)]]
    IN  Concat([i \in 1..Len(weeks) |-> OfWeek(weeks[i])])

\* The first record of (week, team_key), or the column's initial 0.0
lookup_record_pct(record_pct_df, week, team_key) ==
    LET hits == SelectSeq(record_pct_df,
                          LAMBDA r : r.week = week /\ r.team_key = team_key)
    IN  IF hits = << >> THEN [n |-> 0, d |-> 1]
        ELSE hits[1].record_percentage_vs_all

_add_record_percentage_vs_all_to_weekly_df(df) ==
    IF df = << >> THEN df
    ELSE LET record_pct_df == record_percentages(df)
         IN  [i \in 1..Len(df) |->
                [week |-> df[i].week,
                 team1_key |-> df[i].team1_key,
                 team1_points |-> df[i].team1_points,
                 team2_key |-> df[i].team2_key,
                 team2_points |-> df[i].team2_points,
                 team1_record_percentage_vs_all |->
                     lookup_record_pct(record_pct_df, df[i].week, df[i].team1_key),
                 team2_record_percentage_vs_all |->
                     lookup_record_pct(record_pct_df, df[i].week, df[i].team2_key)]]

---------------------------------------------------------------------------
(* SpecBeats: the percentage column computed on drawn scoreboards          *)

\* Rows of the weekly matchup table tried.
MaxBeatRows == 3

BeatTeamKeys == <<"t.1", "t.2", "t.3", "t.4">>

BeatTeams == {BeatTeamKeys[i] : i \in DOMAIN BeatTeamKeys}

\* The position of a team in the league's team list.
BeatTeamIndex(t) == CHOOSE i \in DOMAIN BeatTeamKeys : BeatTeamKeys[i] = t

BeatWeeks == {1, 2}

\* Scores as the provider sends them, and the unavailable sentinel.
BeatPoints == {"1", "2", NA}

TeamsPlaying(df, week) ==
    {df[i].team1_key : i \in {j \in 1..Len(df) : df[j].week = week}}
      \cup {df[i].team2_key : i \in {j \in 1..Len(df) : df[j].week = week}}

InitBeats ==
    /\ beat_df = << >>
    /\ beat_out = << >>
    /\ beat_exp = << >>
    /\ IdleClassifier
    /\ IdleLedger
    /\ IdleCache
    /\ IdleMapper
    /\ IdleRequest
    /\ IdleParsers
    /\ IdleApp

\* _parse_scoreboard appends one matchup of a week; get_weekly_dataframe
\* collects the weeks in ascending order, and a scoreboard lists a team in
\* at most one matchup of a week (drawn here with the lower-numbered team
\* as team1).
ParseMatchup ==
    /\ beat_out = << >>
    /\ Len(beat_df) < MaxBeatRows
    /\ \E week \in BeatWeeks, t1 \in BeatTeams, t2 \in BeatTeams,
          p1 \in BeatPoints, p2 \in BeatPoints :
          /\ BeatTeamIndex(t1) < BeatTeamIndex(t2)
          /\ {t1, t2} \cap TeamsPlaying(beat_df, week) = {}
          /\ beat_df /= << >> => beat_df[Len(beat_df)].week <= week
          /\ beat_df' = Append(beat_df,
                 [week |-> week, team1_key |-> t1, team1_points |-> p1,
                  team2_key |-> t2, team2_points |-> p2])
    /\ UNCHANGED <<beat_out, beat_exp, clsVars, ledVars, cacheVars, mapVars, reqVars, parseVars, appVars>>

AddRecordPercentage ==
    /\ beat_out = << >>
    /\ beat_df /= << >>
    /\ beat_out' = _add_record_percentage_vs_all_to_weekly_df(beat_df)
    /\ UNCHANGED <<beat_df, beat_exp, clsVars, ledVars, cacheVars, mapVars, reqVars, parseVars, appVars>>

\* The specification SpecBeats is completed after
\* _calculate_expected_wins_losses, which its third action applies.

---------------------------------------------------------------------------
(* YahooFantasyAPI.get_all_teams_weekly_stats, the computation on a cache  *)
(* miss (yahoo_fantasy_api.py 498-695).                                    *)
(*                                                                         *)
(* A calendar date is a day number counted from Monday 2024-09-02, so that *)
(* date.weekday() is the day number modulo 7 (Monday = 0).  A timestamp is *)
(* counted in whole days on the same scale: first_tuesday is a midnight,   *)
(* so the time of day of a transaction never changes                       *)
(* (trans_tuesday - first_tuesday).days.                                   *)

\* An optional argument: << >> is None, <<x>> is the value x.
NoArg == << >>

IsGiven(arg) == arg /= NoArg

ArgValue(arg) == arg[1]

\* datetime.strptime(start_date_str, '%Y-%m-%d') for the dates of the model
DateTable == [d \in {"2024-09-03", "2024-09-05"} |->
                 IF d = "2024-09-03" THEN 1 ELSE 3]

strptime_ok(str) == str \in DOMAIN DateTable

strptime(str) == DateTable[str]

weekday(date) == date % 7

\* first_tuesday (lines 523-538): no date when start_date is empty or
\* does not parse
first_tuesday_of(start_date_str) ==
    IF start_date_str /= "" /\ strptime_ok(start_date_str)
    THEN LET start_date == strptime(start_date_str)
             days_until_tuesday == (1 - weekday(start_date)) % 7
         IN  <<start_date + days_until_tuesday>>
    ELSE NoArg

\* A plausible slip: Monday handled by the rule of Wednesday to Sunday,
\* which takes it forward to the next day's Tuesday.
trans_tuesday_monday_forward(trans_date) ==
    IF weekday(trans_date) = 1 THEN trans_date
    ELSE trans_date - (weekday(trans_date) - 1)

\* The Tuesday that starts the week containing trans_date (lines 596-604)
trans_tuesday_of(trans_date) ==
    IF weekday(trans_date) = 1 THEN trans_date
    ELSE IF weekday(trans_date) = 0 THEN trans_date - 6
    ELSE trans_date - (weekday(trans_date) - 1)

\* A plausible slip: the distance to the first Tuesday taken as a
\* magnitude instead of raising a week below 1 to 1.
week_of_timestamp_abs(timestamp, first_tuesday) ==
    LET trans_date == int(timestamp)
        days_diff == trans_tuesday_of(trans_date) - first_tuesday
    IN  ((IF days_diff < 0 THEN -days_diff ELSE days_diff) \div 7) + 1

\* The week of a timestamp (lines 589-612), at least 1
week_of_timestamp(timestamp, first_tuesday) ==
    LET trans_date == int(timestamp)
        days_diff == trans_tuesday_of(trans_date) - first_tuesday
        week == (days_diff \div 7) + 1
    IN  IF week < 1 THEN 1 ELSE week

\* team_key.startswith(league_key): a team key is its league key, ".t." and
\* the team number.
LeagueOfTeamKey ==
    [tk \in {"461.l.1.t.1", "461.l.1.t.2", "461.l.2.t.1"} |->
        IF tk = "461.l.2.t.1" THEN "461.l.2" ELSE "461.l.1"]

startswith(team_key, league_key) ==
    team_key \in DOMAIN LeagueOfTeamKey /\ LeagueOfTeamKey[team_key] = league_key

\* sorted(transactions_list, key=lambda t: int(t.get('timestamp', '0'))):
\* a stable sort, raising when a timestamp is not a number.
sort_key(t) == int(dict_get_default(t, "timestamp", "0"))

sort_key_ok(t) == int_ok(dict_get_default(t, "timestamp", "0"))

RECURSIVE insert_sorted(_, _)
insert_sorted(sorted, t) ==
    IF sorted = << >> THEN <<t>>
    ELSE IF sort_key(Head(sorted)) <= sort_key(t)
         THEN <<Head(sorted)>> \o insert_sorted(Tail(sorted), t)
         ELSE <<t>> \o sorted

RECURSIVE sorted_by_timestamp(_)
sorted_by_timestamp(transactions_list) ==
    IF transactions_list = << >> THEN << >>
    ELSE insert_sorted(
             sorted_by_timestamp(SubSeq(transactions_list, 1,
                                        Len(transactions_list) - 1)),
             transactions_list[Len(transactions_list)])

\* The elements of a list as a set (list(set([...])))
Elems(list) == {list[i] : i \in DOMAIN list}

\* The team keys a transaction counts for (lines 624-631)
counted_team_keys(transaction, league_key) ==
    LET keys == IF transaction.type = "trade"
                THEN dict_get_default(transaction, "trade_teams", << >>)
                ELSE dict_get_default(transaction, "team_keys", << >>)
    IN  {tk \in Elems(keys) : tk /= "" /\ startswith(tk, league_key)}

MoveTypes == {"add", "drop", "add/drop"}

\* All teams start with 100 FAAB (line 659)
StartingFaab == 100

\* The weeks the counters table holds: range(start, min(end + 1, current_week + 1))
table_weeks(start, end, current_week) ==
    {w \in start..end : w < current_week + 1}

Min(a, b) == IF a <= b THEN a ELSE b

\* A plausible slip: the counters of the transaction's own week alone are
\* raised, not those of the weeks after it.
propagate_weeks_own_week_only(week, end, current_week) == {week}

\* The weeks a transaction of `week` is added to:
\* range(week, min(end + 1, current_week + 1) + 1)
propagate_weeks(week, end, current_week) ==
    {w \in week..(Min(end + 1, current_week + 1)) : TRUE}

\* A plausible slip: the FAAB of every positive bid is spent, whatever the
\* status of the transaction.
spends_faab_any_status(transaction) ==
    dict_get_default(transaction, "faab_bid", 0) > 0

\* faab_bid > 0 and transaction.get('status') == 'successful' (line 646)
spends_faab(transaction) ==
    /\ dict_get_default(transaction, "faab_bid", 0) > 0
    /\ dict_get(transaction, "status") = "successful"

\* A plausible slip: 'add/drop' left out of the move types.
is_move_no_add_drop(transaction) == transaction.type \in {"add", "drop"}

\* trans_type in ['add', 'drop', 'add/drop'] (line 639)
is_move(transaction) == transaction.type \in MoveTypes

\* A plausible slip: the team keys of a trade not passed through set(), so
\* that a trade counts once for every occurrence of a team key.
apply_transaction_per_occurrence(counts, transaction, league_key, first_tuesday, start, end, current_week) ==
    LET timestamp == dict_get(transaction, "timestamp") IN
    IF ~Truthy(timestamp) \/ ~IsGiven(first_tuesday) THEN counts
    ELSE IF ~int_ok(timestamp) THEN counts
    ELSE LET week == week_of_timestamp(timestamp, ArgValue(first_tuesday)) IN
         IF week < start \/ week > end THEN counts
         ELSE LET team_keys == counted_team_keys(transaction, league_key)
                  weeks == propagate_weeks(week, end, current_week)
                  listed == dict_get_default(transaction, "trade_teams", << >>)
              IN  [w \in DOMAIN counts |->
                    [tk \in DOMAIN counts[w] |->
                      IF w \in weeks /\ tk \in team_keys
                      THEN [moves |-> counts[w][tk].moves
                                        + (IF is_move(transaction) THEN 1 ELSE 0),
                            trades |-> counts[w][tk].trades
                                        + (IF ~is_move(transaction)
                                              /\ transaction.type = "trade"
                                           THEN Cardinality({i \in DOMAIN listed :
                                                                listed[i] = tk})
                                           ELSE 0),
                            faab_spent |-> counts[w][tk].faab_spent
                                        + (IF spends_faab(transaction)
                                           THEN transaction.faab_bid ELSE 0)]
                      ELSE counts[w][tk]]]

\* One transaction applied to the counters table (lines 583-647)
apply_transaction(counts, transaction, league_key, first_tuesday, start, end, current_week) ==
    LET timestamp == dict_get(transaction, "timestamp") IN
    IF ~Truthy(timestamp) \/ ~IsGiven(first_tuesday) THEN counts
    ELSE IF ~int_ok(timestamp) THEN counts               \* except: continue
    ELSE LET week == week_of_timestamp(timestamp, ArgValue(first_tuesday)) IN
         IF week < start \/ week > end THEN counts
         ELSE LET team_keys == counted_team_keys(transaction, league_key)
                  weeks == propagate_weeks(week, end, current_week)
              IN  [w \in DOMAIN counts |->
                    [tk \in DOMAIN counts[w] |->
                      IF w \in weeks /\ tk \in team_keys
                      THEN [moves |-> counts[w][tk].moves
                                        + (IF is_move(transaction) THEN 1 ELSE 0),
                            trades |-> counts[w][tk].trades
                                        + (IF ~is_move(transaction)
                                              /\ transaction.type = "trade"
                                           THEN 1 ELSE 0),
                            faab_spent |-> counts[w][tk].faab_spent
                                        + (IF spends_faab(transaction)
                                           THEN transaction.faab_bid ELSE 0)]
                      ELSE counts[w][tk]]]

RECURSIVE apply_transactions(_, _, _, _, _, _, _)
apply_transactions(counts, sorted_transactions, league_key, first_tuesday, start, end, current_week) ==
    IF sorted_transactions = << >> THEN counts
    ELSE apply_transactions(
             apply_transaction(counts, Head(sorted_transactions), league_key,
                               first_tuesday, start, end, current_week),
             Tail(sorted_transactions), league_key, first_tuesday,
             start, end, current_week)

\* The teams that have a team_key, in the order of the team list
keyed_teams(teams) == SelectSeq(teams, LAMBDA team : Truthy(dict_get(team, "team_key")))

\* weekly_stats_list (lines 661-695): week by week, team by team
build_weekly_stats_list(counts, teams, start, end, current_week) ==
    LET kt == keyed_teams(teams)
        RowsOfWeek(week_num) ==
            [i \in 1..Len(kt) |->
                LET team_key == kt[i].team_key
                    known == week_num \in DOMAIN counts
                              /\ team_key \in DOMAIN counts[week_num]
                IN  [team_key |-> team_key,
                     week |-> week_num,
                     team_name |-> dict_get_default(kt[i], "name", NA),
                     number_of_moves |->
                         IF known THEN counts[week_num][team_key].moves ELSE 0,
                     number_of_trades |->
                         IF known THEN counts[week_num][team_key].trades ELSE 0,
                     faab_balance |-> StartingFaab
                         - (IF known THEN counts[week_num][team_key].faab_spent
                            ELSE 0)]]
        RECURSIVE FromWeek(_)
        FromWeek(week_num) ==
            IF week_num >= Min(end + 1, current_week + 1) THEN << >>
            ELSE RowsOfWeek(week_num) \o FromWeek(week_num + 1)
    IN  FromWeek(start)

\* The result of a call: a list, or an exception raised to the caller.
Returned(value) == [raised |-> FALSE, value |-> value]

Raised == [raised |-> TRUE, value |-> << >>]

\* The computation of get_all_teams_weekly_stats from the league info, the
\* team list and the parsed transactions (lines 498-695)
compute_weekly_stats(league_key, league_info, teams, transactions_list, start_week, end_week) ==
    IF DOMAIN league_info = {} THEN Returned(<< >>)
    ELSE
    LET cw_raw == dict_get_default(league_info, "current_week", "1")
        start_raw == dict_get_default(league_info, "start_week", "1")
        end_raw == dict_get_default(league_info, "end_week", cw_raw)
    IN
    IF ~(int_ok(cw_raw) /\ int_ok(start_raw) /\ int_ok(end_raw)) THEN Raised
    ELSE
    LET current_week == int(cw_raw)
        start == IF IsGiven(start_week) THEN ArgValue(start_week) ELSE int(start_raw)
        end == IF IsGiven(end_week) THEN ArgValue(end_week) ELSE int(end_raw)
        start_date_str == dict_get_default(league_info, "start_date", "")
    IN
    IF teams = << >> THEN Returned(<< >>)
    ELSE
    LET first_tuesday == first_tuesday_of(start_date_str)
        kt == keyed_teams(teams)
        zero == [moves |-> 0, trades |-> 0, faab_spent |-> 0]
        counts0 == [w \in table_weeks(start, end, current_week) |->
                      [tk \in {kt[i].team_key : i \in 1..Len(kt)} |-> zero]]
    IN
    IF \E i \in DOMAIN transactions_list : ~sort_key_ok(transactions_list[i])
    THEN Raised
    ELSE
    LET sorted_transactions == sorted_by_timestamp(transactions_list)
        counts == apply_transactions(counts0, sorted_transactions, league_key,
                                     first_tuesday, start, end, current_week)
    IN  Returned(build_weekly_stats_list(counts, teams, start, end, current_week))

---------------------------------------------------------------------------
(* SpecLedger: the ledger computed from drawn transaction lists            *)

\* Transactions in the provider's list.
MaxTx == 2

LedgerLeagueKey == "461.l.1"

LedgerTeams ==
    << [team_key |-> "461.l.1.t.1", name |-> "Alpha"],
       [team_key |-> "461.l.1.t.2", name |-> "Beta"] >>

\* The season starts on Thursday 2024-09-05, its first Tuesday being day
\* 8, or on Tuesday 2024-09-03, day 1.
LedgerInfos ==
    { [season |-> "2024", start_week |-> "1", end_week |-> "3",
       current_week |-> cw, start_date |-> "2024-09-05"] : cw \in {"2", "3"} }
    \cup
    { [season |-> "2024", start_week |-> "1", end_week |-> "3",
       current_week |-> "3", start_date |-> "2024-09-03"] }

\* No range, a later start, an earlier end, and both.
LedgerRequests ==
    { [start_week |-> NoArg, end_week |-> NoArg],
      [start_week |-> <<2>>, end_week |-> NoArg],
      [start_week |-> NoArg, end_week |-> <<2>>],
      [start_week |-> <<2>>, end_week |-> <<3>>] }

\* For the Thursday start: Thursday before the first Tuesday (week 1),
\* Monday closing week 1, Tuesday opening and Monday closing week 2,
\* Thursday of week 3; and the 'N/A' the parser puts for a transaction
\* without a timestamp (line 899).
LedgerTimestamps == {"3", "14", "15", "21", "24", NA}

\* type, status and bid of the transactions drawn
LedgerKinds ==
    { [type |-> "add", status |-> "successful", faab_bid |-> 0],
      [type |-> "add/drop", status |-> "successful", faab_bid |-> 5],
      [type |-> "drop", status |-> "failed", faab_bid |-> 5],
      [type |-> "trade", status |-> "successful", faab_bid |-> 0],
      [type |-> "commish", status |-> "successful", faab_bid |-> 5] }

\* The teams of the players of a transaction: one team, or both
LedgerTeamLists == { <<"461.l.1.t.1">>, <<"461.l.1.t.2", "461.l.1.t.1">> }

\* The trader and the tradee of a trade: one team with no tradee recorded,
\* two teams, or the same key recorded as both
LedgerTradeTeams == LedgerTeamLists \cup { <<"461.l.1.t.1", "461.l.1.t.1">> }

\* list(team_keys_involved) (line 922): the set of the players' team keys
\* as a list
players_team_keys(team_list) ==
    IF Len(team_list) = 2 /\ team_list[1] = team_list[2] THEN <<team_list[1]>>
    ELSE team_list

\* A parsed transaction as _parse_single_transaction builds it: for a
\* trade, team_list is the trader and the tradee, whose keys are appended
\* to those of the players' teams (lines 925-939).
ParsedTransaction(kind, timestamp, team_list) ==
    IF kind.type = "trade"
    THEN [type |-> kind.type, status |-> kind.status, faab_bid |-> kind.faab_bid,
          timestamp |-> timestamp,
          team_keys |-> players_team_keys(team_list) \o team_list,
          trade_teams |-> IF Len(team_list) = 2 THEN team_list
                          ELSE team_list \o <<NA>>]
    ELSE [type |-> kind.type, status |-> kind.status, faab_bid |-> kind.faab_bid,
          timestamp |-> timestamp, team_keys |-> team_list]

LedgerNotCalled == [called |-> FALSE, raised |-> FALSE, value |-> << >>]

InitLedger ==
    /\ led_info \in LedgerInfos
    /\ led_req \in LedgerRequests
    /\ led_tx = << >>
    /\ led_out = LedgerNotCalled
    /\ IdleClassifier
    /\ IdleBeats
    /\ IdleCache
    /\ IdleMapper
    /\ IdleRequest
    /\ IdleParsers
    /\ IdleApp

\* The provider's transaction list grows by one parsed transaction.
ProviderTransaction ==
    /\ ~led_out.called
    /\ Len(led_tx) < MaxTx
    /\ \E kind \in LedgerKinds, ts \in LedgerTimestamps :
          \E tl \in IF kind.type = "trade" THEN LedgerTradeTeams ELSE LedgerTeamLists :
              led_tx' = Append(led_tx, ParsedTransaction(kind, ts, tl))
    /\ UNCHANGED <<led_info, led_req, led_out, clsVars, beatVars, cacheVars, mapVars, reqVars, parseVars, appVars>>

\* get_all_teams_weekly_stats on a cache miss
ComputeWeeklyStats ==
    /\ ~led_out.called
    /\ LET r == compute_weekly_stats(LedgerLeagueKey, led_info, LedgerTeams,
                                     led_tx, led_req.start_week, led_req.end_week)
       IN  led_out' = [called |-> TRUE, raised |-> r.raised, value |-> r.value]
    /\ UNCHANGED <<led_info, led_req, led_tx, clsVars, beatVars, cacheVars, mapVars, reqVars, parseVars, appVars>>

NextLedger == ProviderTransaction \/ ComputeWeeklyStats

SpecLedger == InitLedger /\ [][NextLedger]_vars

---------------------------------------------------------------------------
(* The cached fetch operations of YahooFantasyAPI.  An operation works on  *)
(* a world W = [cache, mappings, log]: the cache directory, the nickname   *)
(* mapper's table, and the log of the cache reads, cache writes,           *)
(* classifier calls and provider requests made so far.  It yields          *)
(* [W, value]: the world it leaves and the value it returns.  env is what  *)
(* the operation finds outside: [now, info], the clock and the league info *)
(* the provider answers with.                                              *)

\* self.use_cache (line 58): the cache module is importable and on.
use_cache == TRUE

\* self.nickname_mapper (line 60): the mapper module is importable.
nickname_mapper == TRUE

EmptyLog == [gets |-> {}, hits |-> {}, sets |-> {}, verdicts |-> {}, requests |-> {}]

\* CacheManager._get_cache_key: one file per (league_key, data_type)
_get_cache_key(league_key, data_type) == <<league_key, data_type>>

\* json.dump / json.load of a payload: lists of dictionaries with string
\* keys holding strings, integers and floats come back as they went in.
json_dump(cache_data) == [json |-> cache_data]

json_load(file) == file.json

\* open() and json.load() go through: the file can be read and holds JSON.
\* A file that cannot be opened is [unreadable |-> TRUE], one that holds
\* no JSON is [text |-> ...]; both raise under the try of line 78.
json_load_ok(file) == "json" \in DOMAIN file

\* A plausible slip: an entry is served as soon as it has a 'data' field.
CacheGet_without_cached_at(W, league_key, data_type) ==
    LET cache_path == _get_cache_key(league_key, data_type)
        exists == cache_path \in DOMAIN W.cache
        cache_data == json_load(W.cache[cache_path])
        valid == exists /\ json_load_ok(W.cache[cache_path])
                        /\ "data" \in DOMAIN cache_data
    IN  [W |-> [W EXCEPT !.log.gets = @ \cup {data_type},
                         !.log.hits = IF valid THEN @ \cup {data_type} ELSE @],
         value |-> IF valid THEN <<cache_data.data>> ELSE NoArg]

\* CacheManager.get (cache_manager.py 63-90): the payload of a valid entry,
\* else None; whatever is raised under the try gives None.
CacheGet(W, league_key, data_type) ==
    LET cache_path == _get_cache_key(league_key, data_type)
        exists == cache_path \in DOMAIN W.cache
        cache_data == json_load(W.cache[cache_path])
        valid == exists /\ json_load_ok(W.cache[cache_path])
                        /\ "data" \in DOMAIN cache_data
                        /\ "cached_at" \in DOMAIN cache_data
    IN  [W |-> [W EXCEPT !.log.gets = @ \cup {data_type},
                         !.log.hits = IF valid THEN @ \cup {data_type} ELSE @],
         value |-> IF valid THEN <<cache_data.data>> ELSE NoArg]

\* CacheManager.set (cache_manager.py 92-120): the entry is overwritten
\* wholesale.  The log keeps the league info the writing operation held.
CacheSet(W, league_key, data_type, data, now, league_info) ==
    LET cache_path == _get_cache_key(league_key, data_type)
        cache_data == [league_key |-> league_key, data_type |-> data_type,
                       cached_at |-> now, data |-> data]
        others == [p \in DOMAIN W.cache \ {cache_path} |-> W.cache[p]]
    IN  [W EXCEPT !.cache = (cache_path :> json_dump(cache_data)) @@ others,
                  !.log.sets = @ \cup {[data_type |-> data_type,
                                        league_info |-> league_info]}]

\* self.cache_manager.is_prior_season(league_info) if self.use_cache and
\* league_info else False
IsPrior(W, league_info, now) ==
    IF use_cache /\ DOMAIN league_info /= {}
    THEN LET verdict == is_prior_season(league_info, now)
         IN  [W |-> [W EXCEPT !.log.verdicts =
                         @ \cup {[league_info |-> league_info, verdict |-> verdict]}],
              value |-> verdict]
    ELSE [W |-> W, value |-> FALSE]

\* A plausible slip: the computed payload is cached whatever the verdict.
CacheIfPrior_whatever_the_verdict(W, is_prior, league_key, data_type, data, now, league_info) ==
    IF use_cache
    THEN CacheSet(W, league_key, data_type, data, now, league_info)
    ELSE W

\* if self.use_cache and is_prior_season: self.cache_manager.set(...)
CacheIfPrior(W, is_prior, league_key, data_type, data, now, league_info) ==
    IF use_cache /\ is_prior
    THEN CacheSet(W, league_key, data_type, data, now, league_info)
    ELSE W

\* self._make_request(url): one request to the provider
Request(W, endpoint) == [W EXCEPT !.log.requests = @ \cup {endpoint}]

\* A DataFrame-returning operation answers None for "no data".
ReturnedNone == [raised |-> FALSE, value |-> << >>, none |-> TRUE]

IsNone(r) == "none" \in DOMAIN r

---------------------------------------------------------------------------
(* ManagerNicknameMapper (manager_nickname_mapper.py) and the mapping      *)
(* passes of YahooFantasyAPI                                               *)

HIDDEN == "--hidden--"

\* str.strip() on the strings of the model
StripTable == (" Foo" :> "Foo") @@ (" " :> "")

strip(str) == IF str \in DOMAIN StripTable THEN StripTable[str] ELSE str

\* ManagerNicknameMapper._get_key
_get_key(team_name, league_key, season) ==
    <<strip(team_name), strip(league_key), strip(season)>>

\* get_manager_nickname: the mapping, or None
get_manager_nickname(mappings, team_name, league_key, season) ==
    LET key == _get_key(team_name, league_key, season)
    IN  IF key \in DOMAIN mappings THEN mappings[key] ELSE None

\* set_manager_nickname: nothing is stored when an argument is empty
set_manager_nickname(mappings, team_name, league_key, season, manager_nickname) ==
    IF ~Truthy(team_name) \/ ~Truthy(league_key) \/ ~Truthy(season)
       \/ ~Truthy(manager_nickname)
    THEN mappings
    ELSE LET key == _get_key(team_name, league_key, season)
             others == [k \in DOMAIN mappings \ {key} |-> mappings[k]]
         IN  (key :> manager_nickname) @@ others

\* A plausible slip: the placeholder stored for every unresolved nickname,
\* an empty or unavailable one included.
apply_mapping_any_unresolved(mappings, team_name, league_key, season, current_nickname) ==
    IF current_nickname = HIDDEN \/ ~Truthy(current_nickname) \/ current_nickname = NA
    THEN LET mapped == get_manager_nickname(mappings, team_name, league_key, season)
         IN  IF Truthy(mapped) THEN [mappings |-> mappings, value |-> mapped]
             ELSE IF Truthy(team_name) /\ team_name /= NA
                     /\ Truthy(league_key) /\ Truthy(season)
                  THEN [mappings |-> set_manager_nickname(mappings, team_name,
                                          league_key, season, "FIXME"),
                        value |-> "FIXME"]
                  ELSE [mappings |-> mappings, value |-> current_nickname]
    ELSE [mappings |-> mappings, value |-> current_nickname]

\* apply_mapping (168-193): [mappings, value]
apply_mapping(mappings, team_name, league_key, season, current_nickname) ==
    IF current_nickname = HIDDEN \/ ~Truthy(current_nickname) \/ current_nickname = NA
    THEN LET mapped == get_manager_nickname(mappings, team_name, league_key, season)
         IN  IF Truthy(mapped) THEN [mappings |-> mappings, value |-> mapped]
             ELSE IF current_nickname = HIDDEN /\ Truthy(team_name) /\ team_name /= NA
                     /\ Truthy(league_key) /\ Truthy(season)
                  THEN [mappings |-> set_manager_nickname(mappings, team_name,
                                          league_key, season, "FIXME"),
                        value |-> "FIXME"]
                  ELSE [mappings |-> mappings, value |-> current_nickname]
    ELSE [mappings |-> mappings, value |-> current_nickname]

\* league_key.split('.')[0] if '.' in league_key and league_key else '':
\* the game id that starts a league key, "" for a key without a dot.
GameIdOf == [lk \in {"461.l.1", "461.l.2"} |-> "461"] @@ ("nfl.l.1" :> "nfl")

season_of_league_key(league_key) ==
    IF league_key \in DOMAIN GameIdOf THEN GameIdOf[league_key] ELSE ""

\* season.isdigit()
isdigit(s) == int_ok(s)

\* One item of _apply_nickname_mapping_to_list / one row of
\* _apply_nickname_mapping_to_df: [mappings, value]
map_item_nickname(mappings, item, league_key, season) ==
    LET nickname == dict_get_default(item, "manager_nickname", "")
        team_name == dict_get_default(item, "team_name", "")
    IN  IF (nickname = HIDDEN \/ nickname = NA \/ ~Truthy(nickname))
           /\ Truthy(team_name) /\ team_name /= NA
        THEN LET m == apply_mapping(mappings, team_name, league_key, season, nickname)
                 others == [f \in DOMAIN item \ {"manager_nickname"} |-> item[f]]
             IN  [mappings |-> m.mappings,
                  value |-> ("manager_nickname" :> m.value) @@ others]
        ELSE [mappings |-> mappings, value |-> item]

RECURSIVE map_items(_, _, _, _)
map_items(mappings, data_list, league_key, season) ==
    IF data_list = << >> THEN [mappings |-> mappings, value |-> << >>]
    ELSE LET h == map_item_nickname(mappings, Head(data_list), league_key, season)
             t == map_items(h.mappings, Tail(data_list), league_key, season)
         IN  [mappings |-> t.mappings, value |-> <<h.value>> \o t.value]

\* _apply_nickname_mapping_to_list (101-132)
_apply_nickname_mapping_to_list(W, data_list, league_key) ==
    IF data_list = << >> \/ ~nickname_mapper THEN [W |-> W, value |-> data_list]
    ELSE LET season == season_of_league_key(league_key) IN
         IF ~Truthy(season) \/ ~isdigit(season) THEN [W |-> W, value |-> data_list]
         ELSE LET m == map_items(W.mappings, data_list, league_key, season)
              IN  [W |-> [W EXCEPT !.mappings = m.mappings], value |-> m.value]

\* _apply_nickname_mapping_to_df (62-99): the table must have both columns
_apply_nickname_mapping_to_df(W, df, league_key) ==
    IF df = << >> \/ ~nickname_mapper THEN [W |-> W, value |-> df]
    ELSE LET season == season_of_league_key(league_key) IN
         IF ~Truthy(season) \/ ~isdigit(season) THEN [W |-> W, value |-> df]
         ELSE IF ~({"manager_nickname", "team_name"} \subseteq DOMAIN df[1])
              THEN [W |-> W, value |-> df]
              ELSE LET m == map_items(W.mappings, df, league_key, season)
                   IN  [W |-> [W EXCEPT !.mappings = m.mappings], value |-> m.value]

---------------------------------------------------------------------------
(* What the provider answers for the league of the model                   *)

CacheLeagueKey == "461.l.1"

\* get_league_teams
ProviderTeams == LedgerTeams

\* _parse_transactions: one successful add/drop of team 1 with a bid, on
\* the Tuesday of week 2
ProviderTransactions ==
    << ParsedTransaction([type |-> "add/drop", status |-> "successful", faab_bid |-> 5],
                         "15", <<"461.l.1.t.1">>) >>

\* _parse_scoreboard of a week: one matchup; week 2 is a tie
ProviderScoreboard(week) ==
    << [week |-> week, team1_key |-> "461.l.1.t.1",
        team1_points |-> IF week = 1 THEN "2" ELSE "1",
        team2_key |-> "461.l.1.t.2",
        team2_points |-> IF week = 3 THEN "2" ELSE "1"] >>

\* The teams of the standings payload: the first manager is hidden, the
\* second has no nickname.
ProviderStandings ==
    << [team_key |-> "461.l.1.t.1", name |-> "Alpha", manager_nickname |-> HIDDEN],
       [team_key |-> "461.l.1.t.2", name |-> "Beta"] >>

\* No cache read was made: the cached value is None.
NoCacheRead(W) == [W |-> W, value |-> NoArg]

---------------------------------------------------------------------------
(* get_league_info (242-283).  An operation is written as a chain of       *)
(* steps, each taking what the step before it produced.                    *)

\* _parse_league_info (1401-1433): the league dictionary of the payload,
\* None (the empty dictionary here) when there is none
_parse_league_info(league_data) == league_data

\* lines 278-283: classify, cache if prior, return
league_info_classified(p, league_info, league_key, env) ==
    [W |-> CacheIfPrior(p.W, p.value, league_key, "league_info", league_info,
                        env.now, league_info),
     value |-> league_info]

\* lines 275-283
league_info_parsed(W, league_info, league_key, env) ==
    IF use_cache /\ DOMAIN league_info /= {}
    THEN league_info_classified(IsPrior(W, league_info, env.now), league_info,
                                league_key, env)
    ELSE [W |-> W, value |-> league_info]

\* _make_request (134-184) re-raises what the session raises and ends in
\* response.raise_for_status(): a request to an endpoint that is down raises.
Down(env, endpoint) == endpoint \in env.down

\* What get_league_info hands back is the failure, not a dictionary.
raised_info(league_info) == "raised" \in DOMAIN league_info

\* lines 260-283: the cached info, or the provider's
league_info_after_get(g, league_key, env) ==
    IF IsGiven(g.value) THEN [W |-> g.W, value |-> ArgValue(g.value)]
    ELSE IF Down(env, "league") THEN [W |-> Request(g.W, "league"), value |-> Raised]
    ELSE league_info_parsed(Request(g.W, "league"), _parse_league_info(env.info),
                            league_key, env)

\* A plausible slip: the league info always fetched, its cache entry
\* written but never read.
get_league_info_fetch_always(W, league_key, force_refresh, env) ==
    league_info_after_get(NoCacheRead(W), league_key, env)

get_league_info(W, league_key, force_refresh, env) ==
    league_info_after_get(
        IF use_cache /\ ~force_refresh THEN CacheGet(W, league_key, "league_info")
                                       ELSE NoCacheRead(W),
        league_key, env)

---------------------------------------------------------------------------
(* get_all_teams_weekly_stats (457-701)                                    *)

\* The records of a cached table inside the requested range (483-495)
filter_by_week_args(data, start_week, end_week) ==
    SelectSeq(data, LAMBDA item :
        /\ ~(IsGiven(start_week) /\ item.week < ArgValue(start_week))
        /\ ~(IsGiven(end_week) /\ item.week > ArgValue(end_week)))

\* lines 481-496: the cached table after the nickname pass
weekly_stats_from_cache(m, start_week, end_week) ==
    [W |-> m.W,
     value |-> Returned(IF IsGiven(start_week) \/ IsGiven(end_week)
                        THEN filter_by_week_args(m.value, start_week, end_week)
                        ELSE m.value)]

\* lines 697-701: cache if prior, return
weekly_stats_computed(W, r, is_prior, league_key, league_info, env) ==
    IF r.raised THEN [W |-> W, value |-> r]
    ELSE [W |-> CacheIfPrior(W, is_prior, league_key, "weekly_stats", r.value,
                             env.now, league_info),
          value |-> r]

\* lines 480-701
weekly_stats_after_get(g, is_prior, league_info, league_key, start_week, end_week, env) ==
    IF IsGiven(g.value)
    THEN weekly_stats_from_cache(
             _apply_nickname_mapping_to_list(g.W, ArgValue(g.value), league_key),
             start_week, end_week)
    ELSE IF DOMAIN league_info = {} THEN [W |-> g.W, value |-> Returned(<< >>)]
    ELSE IF Down(env, "teams") THEN [W |-> Request(g.W, "teams"), value |-> Raised]
    ELSE IF ProviderTeams = << >>
    THEN [W |-> Request(g.W, "teams"), value |-> Returned(<< >>)]
    ELSE IF Down(env, "transactions")
    THEN [W |-> Request(Request(g.W, "teams"), "transactions"), value |-> Raised]
    ELSE weekly_stats_computed(
             Request(Request(Request(g.W, "teams"), "transactions"), "team_stats"),
             compute_weekly_stats(league_key, league_info, ProviderTeams,
                                  ProviderTransactions, start_week, end_week),
             is_prior, league_key, league_info, env)

\* lines 479-701
weekly_stats_classified(p, league_info, league_key, start_week, end_week, force_refresh, env) ==
    weekly_stats_after_get(
        IF use_cache /\ ~force_refresh /\ p.value
        THEN CacheGet(p.W, league_key, "weekly_stats") ELSE NoCacheRead(p.W),
        p.value, league_info, league_key, start_week, end_week, env)

\* lines 477-701
weekly_stats_with_info(li, league_key, start_week, end_week, force_refresh, env) ==
    IF raised_info(li.value) THEN [W |-> li.W, value |-> Raised]
    ELSE
    weekly_stats_classified(IsPrior(li.W, li.value, env.now), li.value, league_key,
                            start_week, end_week, force_refresh, env)

get_all_teams_weekly_stats(W, league_key, start_week, end_week, force_refresh, env) ==
    weekly_stats_with_info(get_league_info(W, league_key, force_refresh, env),
                           league_key, start_week, end_week, force_refresh, env)

---------------------------------------------------------------------------
(* get_weekly_dataframe (1730-1806)                                        *)

\* df[(df['week'] >= start) & (df['week'] <= end)]
filter_by_week_range(df, start, end) ==
    SelectSeq(df, LAMBDA row : row.week >= start /\ row.week <= end)

\* get_league_scoreboard(league_key, week): the endpoint of a week
scoreboard_endpoint == [week \in 1..3 |-> <<"scoreboard1", "scoreboard2", "scoreboard3">>[week]]

\* One pass of the loop (1781-1789): the matchups of the week before those
\* of the later weeks; the except clause logs a scoreboard that raises and
\* the loop goes on.
week_matchups(week, stop, env, rest) ==
    IF Down(env, scoreboard_endpoint[week]) THEN rest
    ELSE ProviderScoreboard(week) \o rest

\* The matchup rows of the weeks week .. stop - 1, in order (1781-1789)
RECURSIVE collect_weekly_data(_, _, _)
collect_weekly_data(week, stop, env) ==
    IF week >= stop THEN << >>
    ELSE week_matchups(week, stop, env, collect_weekly_data(week + 1, stop, env))

RECURSIVE request_scoreboards(_, _, _)
request_scoreboards(W, week, stop) ==
    IF week >= stop THEN W
    ELSE request_scoreboards(Request(W, "scoreboard"), week + 1, stop)

\* lines 1795-1806: the table with its percentage columns, cached if prior
weekly_data_table(W, df, is_prior, league_key, league_info, env) ==
    [W |-> CacheIfPrior(W, is_prior, league_key, "weekly_data", df, env.now,
                        league_info),
     value |-> Returned(df)]

\* lines 1779-1806: the scoreboards of the weeks, None when they hold no
\* matchup
weekly_data_collected(W, weekly_data_list, is_prior, league_key, league_info, env) ==
    IF weekly_data_list = << >> THEN [W |-> W, value |-> ReturnedNone]
    ELSE weekly_data_table(W, _add_record_percentage_vs_all_to_weekly_df(weekly_data_list),
                           is_prior, league_key, league_info, env)

\* lines 1767-1806
weekly_data_after_get(g, is_prior, league_info, league_key, ranged, start, end, current_week, env) ==
    IF IsGiven(g.value)
    THEN [W |-> g.W,
          value |-> Returned(IF ranged
                             THEN filter_by_week_range(ArgValue(g.value), start, end)
                             ELSE ArgValue(g.value))]
    ELSE weekly_data_collected(
             request_scoreboards(g.W, start, Min(end + 1, current_week + 1)),
             collect_weekly_data(start, Min(end + 1, current_week + 1), env),
             is_prior, league_key, league_info, env)

\* lines 1754-1806: int() of a week field that is not a number raises
weekly_data_classified(p, league_info, league_key, start_week, end_week, force_refresh, cw_raw, env) ==
    IF ~(int_ok(cw_raw)
         /\ int_ok(dict_get_default(league_info, "start_week", "1"))
         /\ int_ok(dict_get_default(league_info, "end_week", cw_raw)))
    THEN [W |-> p.W, value |-> Raised]
    ELSE weekly_data_after_get(
             IF use_cache /\ ~force_refresh /\ p.value
             THEN CacheGet(p.W, league_key, "weekly_data") ELSE NoCacheRead(p.W),
             p.value, league_info, league_key,
             IsGiven(start_week) \/ IsGiven(end_week),
             IF IsGiven(start_week) THEN ArgValue(start_week)
             ELSE int(dict_get_default(league_info, "start_week", "1")),
             IF IsGiven(end_week) THEN ArgValue(end_week)
             ELSE int(dict_get_default(league_info, "end_week", cw_raw)),
             int(cw_raw), env)

\* lines 1749-1806
weekly_data_with_info(li, league_key, start_week, end_week, force_refresh, env) ==
    IF raised_info(li.value) THEN [W |-> li.W, value |-> Raised]
    ELSE IF DOMAIN li.value = {} THEN [W |-> li.W, value |-> ReturnedNone]
    ELSE weekly_data_classified(IsPrior(li.W, li.value, env.now), li.value, league_key,
                                start_week, end_week, force_refresh,
                                dict_get_default(li.value, "current_week", "1"), env)

get_weekly_dataframe(W, league_key, start_week, end_week, force_refresh, env) ==
    weekly_data_with_info(get_league_info(W, league_key, force_refresh, env),
                          league_key, start_week, end_week, force_refresh, env)

---------------------------------------------------------------------------
(* get_weekly_team_performance_dataframe (2053-2126)                       *)

\* The two team-week records of a matchup row (2100-2119)
team_performance_of_row(row) ==
    << [week |-> row.week, team_key |-> row.team1_key, points |-> row.team1_points,
        record_percentage_vs_all |->
            dict_get_default(row, "team1_record_percentage_vs_all", [n |-> 0, d |-> 1])],
       [week |-> row.week, team_key |-> row.team2_key, points |-> row.team2_points,
        record_percentage_vs_all |->
            dict_get_default(row, "team2_record_percentage_vs_all", [n |-> 0, d |-> 1])] >>

\* df.drop_duplicates(subset=['week', 'team_key'], keep='first')
RECURSIVE drop_duplicates(_)
drop_duplicates(rows) ==
    IF rows = << >> THEN << >>
    ELSE <<Head(rows)>> \o drop_duplicates(SelectSeq(Tail(rows),
             LAMBDA r : ~(r.week = Head(rows).week /\ r.team_key = Head(rows).team_key)))

\* a > b for percentages kept as fractions
pct_greater(a, b) == a.n * b.d > b.n * a.d

\* df.sort_values(['week', 'record_percentage_vs_all'], ascending=[True, False]),
\* a stable sort
performance_before(a, b) ==
    \/ a.week < b.week
    \/ a.week = b.week /\ pct_greater(a.record_percentage_vs_all,
                                      b.record_percentage_vs_all)

RECURSIVE insert_performance(_, _)
insert_performance(sorted, r) ==
    IF sorted = << >> THEN <<r>>
    ELSE IF performance_before(r, Head(sorted))
         THEN <<r>> \o sorted
         ELSE <<Head(sorted)>> \o insert_performance(Tail(sorted), r)

RECURSIVE sort_performance(_)
sort_performance(rows) ==
    IF rows = << >> THEN << >>
    ELSE insert_performance(sort_performance(SubSeq(rows, 1, Len(rows) - 1)),
                            rows[Len(rows)])

\* lines 2094-2126: the team-week table of a weekly matchup table
performance_of_weekly_df(wd) ==
    IF wd.value.raised THEN wd
    ELSE IF IsNone(wd.value) \/ wd.value.value = << >>
    THEN [W |-> wd.W, value |-> ReturnedNone]
    ELSE [W |-> wd.W,
          value |-> Returned(sort_performance(drop_duplicates(
                        Concat([i \in 1..Len(wd.value.value) |->
                                   team_performance_of_row(wd.value.value[i])]))))]

\* lines 2083-2087: a cached table filtered by the range, the league info
\* fetched once more for the defaults
performance_cached_ranged(li2, data, start_week, end_week) ==
    [W |-> li2.W,
     value |-> Returned(filter_by_week_range(data,
                  IF IsGiven(start_week) THEN ArgValue(start_week)
                  ELSE int(dict_get_default(li2.value, "start_week", "1")),
                  IF IsGiven(end_week) THEN ArgValue(end_week)
                  ELSE int(dict_get_default(li2.value, "end_week",
                               dict_get_default(li2.value, "current_week", "1")))))]

\* lines 2078-2126
performance_after_get(g, league_key, start_week, end_week, force_refresh, env) ==
    IF IsGiven(g.value)
    THEN IF IsGiven(start_week) \/ IsGiven(end_week)
         THEN performance_cached_ranged(
                  get_league_info(g.W, league_key, force_refresh, env),
                  ArgValue(g.value), start_week, end_week)
         ELSE [W |-> g.W, value |-> Returned(ArgValue(g.value))]
    ELSE performance_of_weekly_df(
             get_weekly_dataframe(g.W, league_key, start_week, end_week,
                                  force_refresh, env))

\* lines 2076-2126
performance_classified(p, league_key, start_week, end_week, force_refresh, env) ==
    performance_after_get(
        IF use_cache /\ ~force_refresh /\ p.value
        THEN CacheGet(p.W, league_key, "weekly_performance") ELSE NoCacheRead(p.W),
        league_key, start_week, end_week, force_refresh, env)

\* lines 2073-2126
performance_with_info(li, league_key, start_week, end_week, force_refresh, env) ==
    IF raised_info(li.value) THEN [W |-> li.W, value |-> Raised]
    ELSE
    performance_classified(IsPrior(li.W, li.value, env.now), league_key,
                           start_week, end_week, force_refresh, env)

get_weekly_team_performance_dataframe(W, league_key, start_week, end_week, force_refresh, env) ==
    performance_with_info(get_league_info(W, league_key, force_refresh, env),
                          league_key, start_week, end_week, force_refresh, env)

---------------------------------------------------------------------------
(* _calculate_expected_wins_losses (1081-1140): it fetches the league info *)
(* and the weekly performance table without a force_refresh argument.      *)

\* lines 1116-1140: per team, the weeks above and below 50%
expected_stats_of_rows(rows) ==
    [tk \in {rows[i].team_key : i \in DOMAIN rows} |->
        [expected_wins |-> Cardinality({i \in DOMAIN rows :
             /\ rows[i].team_key = tk
             /\ pct_greater(rows[i].record_percentage_vs_all, [n |-> 50, d |-> 1])}),
         expected_losses |-> Cardinality({i \in DOMAIN rows :
             /\ rows[i].team_key = tk
             /\ pct_greater([n |-> 50, d |-> 1], rows[i].record_percentage_vs_all)})]]

\* A plausible slip: the current week counted with the completed ones.
completed_week_or_current(week, current_week) == week <= current_week

\* line 1111: weekly_performance_df['week'] < current_week
completed_week(week, current_week) == week < current_week

\* lines 1097-1102: current_week is None when the field is not a number
expected_current_week(league_info) ==
    IF DOMAIN league_info /= {} /\ int_ok(dict_get_default(league_info, "current_week", "1"))
    THEN <<int(dict_get_default(league_info, "current_week", "1"))>>
    ELSE NoArg

\* lines 1106-1140: the completed weeks only (week < current_week)
expected_stats_of_performance(pf, current_week) ==
    IF pf.value.raised THEN [W |-> pf.W, raised |-> TRUE, value |-> << >>]
    ELSE IF IsNone(pf.value) \/ pf.value.value = << >>
    THEN [W |-> pf.W, raised |-> FALSE, value |-> << >>]
    ELSE [W |-> pf.W, raised |-> FALSE,
          value |-> expected_stats_of_rows(
                        IF IsGiven(current_week)
                        THEN SelectSeq(pf.value.value,
                              LAMBDA r : completed_week(r.week, ArgValue(current_week)))
                        ELSE pf.value.value)]

\* lines 1097-1140
expected_stats_with_info(li, league_key, env) ==
    IF raised_info(li.value) THEN [W |-> li.W, raised |-> TRUE, value |-> << >>]
    ELSE
    expected_stats_of_performance(
        get_weekly_team_performance_dataframe(li.W, league_key, NoArg, NoArg, FALSE, env),
        expected_current_week(li.value))

_calculate_expected_wins_losses(W, league_key, env) ==
    expected_stats_with_info(get_league_info(W, league_key, FALSE, env), league_key, env)

---------------------------------------------------------------------------
(* SpecBeats, completed: the expected wins and losses of the drawn tables  *)

\* league_info['current_week'] as the provider sends it
BeatCurrentWeeks == {"1", "2", "3"}

\* _calculate_expected_wins_losses on the weekly table of beat_out, for a
\* league info whose current week is drawn: the team-week table is the one
\* get_weekly_team_performance_dataframe builds from the weekly table.
CalculateExpectedWinsLosses ==
    /\ beat_out /= << >>
    /\ beat_exp = << >>
    /\ \E current_week \in BeatCurrentWeeks :
          beat_exp' =
            [league_info |-> [current_week |-> current_week],
             expected_stats |->
                expected_stats_of_performance(
                    performance_of_weekly_df([W |-> << >>, value |-> Returned(beat_out)]),
                    expected_current_week([current_week |-> current_week])).value]
    /\ UNCHANGED <<beat_df, beat_out, clsVars, ledVars, cacheVars, mapVars, reqVars, parseVars, appVars>>

NextBeats == ParseMatchup \/ AddRecordPercentage \/ CalculateExpectedWinsLosses

SpecBeats == InitBeats /\ [][NextBeats]_vars

---------------------------------------------------------------------------
(* get_teams_stats_dataframe (1142-1282)                                   *)

\* A plausible slip: a hidden manager is only looked up, and stays hidden
\* when the mapper does not know the team.
standings_nickname_lookup_only(mappings, manager_nickname, team_name, league_key, season) ==
    IF nickname_mapper /\ manager_nickname = HIDDEN /\ Truthy(season) /\ isdigit(season)
       /\ Truthy(get_manager_nickname(mappings, team_name, league_key, season))
    THEN apply_mapping(mappings, team_name, league_key, season, manager_nickname)
    ELSE [mappings |-> mappings, value |-> manager_nickname]

\* manager_nickname of _parse_standings (1684-1693): a hidden manager is
\* looked up in the mapper, which stores "FIXME" for a team it does not know
standings_nickname(mappings, manager_nickname, team_name, league_key, season) ==
    IF nickname_mapper /\ manager_nickname = HIDDEN /\ Truthy(season) /\ isdigit(season)
    THEN apply_mapping(mappings, team_name, league_key, season, manager_nickname)
    ELSE [mappings |-> mappings, value |-> manager_nickname]

\* parsed_team (1695-1704), without the columns copied from the payload
\* one to one (rank, wins, points, ...)
parsed_team(m, team_info) ==
    [mappings |-> m.mappings,
     value |-> [team_key |-> dict_get_default(team_info, "team_key", NA),
                team_name |-> dict_get_default(team_info, "name", NA),
                manager_nickname |-> m.value]]

\* One team of _parse_standings (1680-1704)
parse_standings_team(mappings, team_info, league_key) ==
    parsed_team(standings_nickname(mappings,
                    dict_get_default(team_info, "manager_nickname", NA),
                    dict_get_default(team_info, "name", NA),
                    league_key, season_of_league_key(league_key)),
                team_info)

RECURSIVE parse_standings_teams(_, _, _)
parse_standings_teams(mappings, teams, league_key) ==
    IF teams = << >> THEN [mappings |-> mappings, value |-> << >>]
    ELSE LET h == parse_standings_team(mappings, Head(teams), league_key)
             t == parse_standings_teams(h.mappings, Tail(teams), league_key)
         IN  [mappings |-> t.mappings, value |-> <<h.value>> \o t.value]

\* A list built with the mapper put back into the world
with_mappings(W, m) == [W |-> [W EXCEPT !.mappings = m.mappings], value |-> m.value]

\* _parse_standings (1568-1728)
_parse_standings(W, standings_data, league_key) ==
    with_mappings(W, parse_standings_teams(W.mappings, standings_data, league_key))

\* The expected-record columns of the team table (1186-1199, 1272-1280)
with_expected_stats(team_stats_list, expected_stats) ==
    [i \in 1..Len(team_stats_list) |->
        [team_key |-> team_stats_list[i].team_key,
         team_name |-> team_stats_list[i].team_name,
         manager_nickname |-> team_stats_list[i].manager_nickname,
         expected_wins |->
             IF team_stats_list[i].team_key \in DOMAIN expected_stats
             THEN expected_stats[team_stats_list[i].team_key].expected_wins ELSE 0,
         expected_losses |->
             IF team_stats_list[i].team_key \in DOMAIN expected_stats
             THEN expected_stats[team_stats_list[i].team_key].expected_losses ELSE 0]]

\* lines 1267-1282
fallback_table(es, rows) ==
    IF es.raised THEN [W |-> es.W, value |-> Raised]
    ELSE [W |-> es.W, value |-> Returned(with_expected_stats(rows, es.value))]

\* lines 1243-1282: one row per team that has a key
fallback_of_teams(W, teams, league_key, env) ==
    IF teams = << >> THEN [W |-> W, value |-> ReturnedNone]
    ELSE fallback_table(
             _calculate_expected_wins_losses(Request(W, "team_stats"), league_key, env),
             [i \in 1..Len(teams) |->
                 [team_key |-> teams[i].team_key,
                  team_name |-> dict_get_default(teams[i], "name", NA),
                  manager_nickname |-> NA]])

\* The fallback over the teams' own stats (1237-1282); it caches nothing.
team_stats_fallback(W, league_key, env) ==
    IF Down(env, "teams") THEN [W |-> Request(W, "teams"), value |-> Raised]
    ELSE
    fallback_of_teams(Request(W, "teams"), keyed_teams(ProviderTeams), league_key, env)

\* lines 1184-1229: an exception under the try falls through to the fallback
teams_stats_table(es, team_stats_list, is_prior, league_key, league_info, env) ==
    IF es.raised THEN team_stats_fallback(es.W, league_key, env)
    ELSE [W |-> CacheIfPrior(es.W, is_prior, league_key, "teams_stats",
                             with_expected_stats(team_stats_list, es.value),
                             env.now, league_info),
          value |-> Returned(with_expected_stats(team_stats_list, es.value))]

\* lines 1180-1282
teams_stats_of_standings(ps, is_prior, league_key, league_info, env) ==
    IF ps.value /= << >>
    THEN teams_stats_table(_calculate_expected_wins_losses(ps.W, league_key, env),
                           ps.value, is_prior, league_key, league_info, env)
    ELSE team_stats_fallback(ps.W, league_key, env)

\* lines 1177-1282
teams_stats_classified(p, league_key, league_info, env) ==
    IF Down(env, "standings")
    THEN team_stats_fallback(Request(p.W, "standings"), league_key, env)
    ELSE
    teams_stats_of_standings(
        _parse_standings(Request(p.W, "standings"), ProviderStandings, league_key),
        p.value, league_key, league_info, env)

\* lines 1174-1282
teams_stats_with_info(li, league_key, env) ==
    IF raised_info(li.value) THEN [W |-> li.W, value |-> Raised]
    ELSE
    teams_stats_classified(IsPrior(li.W, li.value, env.now), league_key, li.value, env)

\* lines 1162-1167: the cached table after the nickname pass
teams_stats_from_cache(m) == [W |-> m.W, value |-> Returned(m.value)]

\* lines 1162-1282
teams_stats_after_get(g, league_key, force_refresh, env) ==
    IF IsGiven(g.value)
    THEN teams_stats_from_cache(
             _apply_nickname_mapping_to_df(g.W, ArgValue(g.value), league_key))
    ELSE teams_stats_with_info(get_league_info(g.W, league_key, force_refresh, env),
                               league_key, env)

get_teams_stats_dataframe(W, league_key, force_refresh, env) ==
    teams_stats_after_get(
        IF use_cache /\ ~force_refresh THEN CacheGet(W, league_key, "teams_stats")
                                       ELSE NoCacheRead(W),
        league_key, force_refresh, env)

---------------------------------------------------------------------------
(* SpecCache: fetch operations in any order on a cache that starts empty,  *)
(* while the clock and the league's season move forward                    *)

\* The league info the provider answers with: the season is fixed, the
\* current week runs up to the end week.
CacheInfos ==
    { [season |-> "2024", start_week |-> "1", end_week |-> "3", current_week |-> cw,
       start_date |-> "2024-09-05"] : cw \in {"2", "3"} }

\* The dates tried: the February after the season (only the week rule can
\* say prior), the March (last year's season, past February), and a year on.
CacheClocks ==
    { [year |-> 2025, month |-> 2], [year |-> 2025, month |-> 3],
      [year |-> 2026, month |-> 2] }

\* The week range arguments tried: none, and an end before the season's end
CacheRequests ==
    { [start_week |-> NoArg, end_week |-> NoArg],
      [start_week |-> NoArg, end_week |-> <<2>>] }

\* manager_nicknames.csv as loaded: empty, or naming the second manager
LoadedMappings ==
    { [k \in {} |-> ""],
      [k \in {_get_key("Beta", "461.l.1", "461")} |-> "Bea"] }

CacheNoOp ==
    [name |-> "none", force_refresh |-> FALSE, start_week |-> NoArg, end_week |-> NoArg,
     now |-> [year |-> 0, month |-> 0], info |-> << >>,
     log |-> EmptyLog, result |-> Returned(<< >>)]

InitCache ==
    /\ c_now \in CacheClocks
    /\ c_info \in CacheInfos
    /\ c_cache = [p \in {} |-> << >>]
    /\ c_mappings \in LoadedMappings
    /\ c_op = CacheNoOp
    /\ IdleClassifier
    /\ IdleBeats
    /\ IdleLedger
    /\ IdleMapper
    /\ IdleRequest
    /\ IdleParsers
    /\ IdleApp

\* The world an operation starts in, and what it finds outside
World == [cache |-> c_cache, mappings |-> c_mappings, log |-> EmptyLog]

\* What an operation finds outside while the endpoints of down raise
EnvWith(down) == [now |-> c_now, info |-> c_info, down |-> down]

\* ... and while the provider answers every request
Env == EnvWith({})

\* The operation r = [W, value] leaves its world behind and its trace in c_op.
Finish(name, force_refresh, req, r) ==
    /\ c_cache' = r.W.cache
    /\ c_mappings' = r.W.mappings
    /\ c_op' = [name |-> name, force_refresh |-> force_refresh,
                start_week |-> req.start_week, end_week |-> req.end_week,
                now |-> c_now, info |-> c_info, log |-> r.W.log, result |-> r.value]

NoRange == [start_week |-> NoArg, end_week |-> NoArg]

\* get_league_info returns the dictionary itself
returned_info(r) ==
    IF raised_info(r.value) THEN r ELSE [W |-> r.W, value |-> Returned(r.value)]

GetLeagueInfo ==
    \E force_refresh \in BOOLEAN :
        /\ Finish("get_league_info", force_refresh, NoRange,
                  returned_info(get_league_info(World, CacheLeagueKey,
                                                force_refresh, Env)))
        /\ UNCHANGED <<c_now, c_info, clsVars, beatVars, ledVars, mapVars, reqVars, parseVars, appVars>>

GetAllTeamsWeeklyStats ==
    \E force_refresh \in BOOLEAN, req \in CacheRequests :
        /\ Finish("get_all_teams_weekly_stats", force_refresh, req,
                  get_all_teams_weekly_stats(World, CacheLeagueKey, req.start_week,
                                             req.end_week, force_refresh, Env))
        /\ UNCHANGED <<c_now, c_info, clsVars, beatVars, ledVars, mapVars, reqVars, parseVars, appVars>>

GetWeeklyDataframe ==
    \E force_refresh \in BOOLEAN, req \in CacheRequests :
        /\ Finish("get_weekly_dataframe", force_refresh, req,
                  get_weekly_dataframe(World, CacheLeagueKey, req.start_week,
                                       req.end_week, force_refresh, Env))
        /\ UNCHANGED <<c_now, c_info, clsVars, beatVars, ledVars, mapVars, reqVars, parseVars, appVars>>

GetWeeklyTeamPerformanceDataframe ==
    \E force_refresh \in BOOLEAN, req \in CacheRequests :
        /\ Finish("get_weekly_team_performance_dataframe", force_refresh, req,
                  get_weekly_team_performance_dataframe(World, CacheLeagueKey,
                      req.start_week, req.end_week, force_refresh, Env))
        /\ UNCHANGED <<c_now, c_info, clsVars, beatVars, ledVars, mapVars, reqVars, parseVars, appVars>>

GetTeamsStatsDataframe ==
    \E force_refresh \in BOOLEAN :
        /\ Finish("get_teams_stats_dataframe", force_refresh, NoRange,
                  get_teams_stats_dataframe(World, CacheLeagueKey, force_refresh, Env))
        /\ UNCHANGED <<c_now, c_info, clsVars, beatVars, ledVars, mapVars, reqVars, parseVars, appVars>>

\* datetime.now() moves forward between operations.
ClockAdvances ==
    /\ \E t \in CacheClocks :
          /\ ClockLater(c_now, t)
          /\ c_now' = t
    /\ UNCHANGED <<c_info, c_cache, c_mappings, c_op, clsVars, beatVars, ledVars, mapVars, reqVars, parseVars, appVars>>

\* The season moves on to its next week.
ProviderWeekAdvances ==
    /\ int(c_info.current_week) < int(c_info.end_week)
    /\ c_info' = [c_info EXCEPT !.current_week = ToString(int(@) + 1)]
    /\ UNCHANGED <<c_now, c_cache, c_mappings, c_op, clsVars, beatVars, ledVars, mapVars, reqVars, parseVars, appVars>>

NextCache ==
    \/ GetLeagueInfo
    \/ GetAllTeamsWeeklyStats
    \/ GetWeeklyDataframe
    \/ GetWeeklyTeamPerformanceDataframe
    \/ GetTeamsStatsDataframe
    \/ ClockAdvances
    \/ ProviderWeekAdvances

SpecCache == InitCache /\ [][NextCache]_vars

---------------------------------------------------------------------------
(* SpecFaults: one table-producing operation while some endpoints of the   *)
(* provider raise (network or authentication failure), or on a cache       *)
(* directory that holds a damaged file                                     *)

\* The endpoints that raise during the operation
ProviderFaults ==
    { {}, {"league"}, {"teams"}, {"transactions"}, {"standings"}, {"scoreboard2"},
      {"standings", "teams"}, {"scoreboard1", "scoreboard2", "scoreboard3"} }

EmptyCache == [p \in {} |-> << >>]

\* What a file written earlier in the season holds as 'data'
EarlierPayload(data_type) ==
    IF data_type = "league_info"
    THEN [season |-> "2024", start_week |-> "1", end_week |-> "3", current_week |-> "1",
          start_date |-> "2024-09-05"]
    ELSE << >>

\* A cache file get cannot use: one that cannot be opened, one that holds
\* no JSON, JSON without 'data', JSON without 'cached_at', JSON that is a
\* list.
DamagedFiles(data_type) ==
    { [unreadable |-> TRUE],
      [text |-> "{"],
      [json |-> [league_key |-> CacheLeagueKey, data_type |-> data_type,
                 cached_at |-> [year |-> 2025, month |-> 1]]],
      [json |-> [league_key |-> CacheLeagueKey, data_type |-> data_type,
                 data |-> EarlierPayload(data_type)]],
      [json |-> << >>] }

\* The cache directory found: empty, or holding one damaged file
FoundCaches ==
    {EmptyCache} \cup
    UNION { { (_get_cache_key(CacheLeagueKey, data_type) :> file) :
                file \in DamagedFiles(data_type) } :
            data_type \in {"league_info", "weekly_data"} }

InitFaults ==
    /\ c_now \in CacheClocks
    /\ c_info \in CacheInfos
    /\ c_cache \in FoundCaches
    /\ c_mappings \in LoadedMappings
    /\ c_op = CacheNoOp
    /\ IdleClassifier
    /\ IdleBeats
    /\ IdleLedger
    /\ IdleMapper
    /\ IdleRequest
    /\ IdleParsers
    /\ IdleApp

\* The operation r leaves its world behind and its trace, with the
\* endpoints that were down, in c_op.
FinishDown(name, force_refresh, req, down, r) ==
    /\ c_op = CacheNoOp
    /\ down /= {} => c_cache = EmptyCache
    /\ c_cache' = r.W.cache
    /\ c_mappings' = r.W.mappings
    /\ c_op' = [name |-> name, force_refresh |-> force_refresh,
                start_week |-> req.start_week, end_week |-> req.end_week,
                now |-> c_now, info |-> c_info, log |-> r.W.log, result |-> r.value,
                down |-> down, cache_before |-> c_cache, mappings_before |-> c_mappings]

GetAllTeamsWeeklyStatsDown ==
    \E force_refresh \in BOOLEAN, req \in CacheRequests, down \in ProviderFaults :
        /\ FinishDown("get_all_teams_weekly_stats", force_refresh, req, down,
                  get_all_teams_weekly_stats(World, CacheLeagueKey, req.start_week,
                                             req.end_week, force_refresh, EnvWith(down)))
        /\ UNCHANGED <<c_now, c_info, clsVars, beatVars, ledVars, mapVars, reqVars, parseVars, appVars>>

GetWeeklyDataframeDown ==
    \E force_refresh \in BOOLEAN, req \in CacheRequests, down \in ProviderFaults :
        /\ FinishDown("get_weekly_dataframe", force_refresh, req, down,
                  get_weekly_dataframe(World, CacheLeagueKey, req.start_week,
                                       req.end_week, force_refresh, EnvWith(down)))
        /\ UNCHANGED <<c_now, c_info, clsVars, beatVars, ledVars, mapVars, reqVars, parseVars, appVars>>

GetWeeklyTeamPerformanceDataframeDown ==
    \E force_refresh \in BOOLEAN, req \in CacheRequests, down \in ProviderFaults :
        /\ FinishDown("get_weekly_team_performance_dataframe", force_refresh, req, down,
                  get_weekly_team_performance_dataframe(World, CacheLeagueKey,
                      req.start_week, req.end_week, force_refresh, EnvWith(down)))
        /\ UNCHANGED <<c_now, c_info, clsVars, beatVars, ledVars, mapVars, reqVars, parseVars, appVars>>

GetTeamsStatsDataframeDown ==
    \E force_refresh \in BOOLEAN, down \in ProviderFaults :
        /\ FinishDown("get_teams_stats_dataframe", force_refresh, NoRange, down,
                  get_teams_stats_dataframe(World, CacheLeagueKey, force_refresh,
                                            EnvWith(down)))
        /\ UNCHANGED <<c_now, c_info, clsVars, beatVars, ledVars, mapVars, reqVars, parseVars, appVars>>

NextFaults ==
    \/ GetAllTeamsWeeklyStatsDown
    \/ GetWeeklyDataframeDown
    \/ GetWeeklyTeamPerformanceDataframeDown
    \/ GetTeamsStatsDataframeDown

SpecFaults == InitFaults /\ [][NextFaults]_vars

---------------------------------------------------------------------------
(* CacheManager.clear (cache_manager.py 136-184) and SpecClear: entries of *)
(* two leagues stored and cleared, in a directory that may also hold files *)
(* that are no JSON                                                        *)

\* The file of the directory is deleted by a clear that filters
\* (lines 158-182): by the 'league_key' or the 'data_type' its JSON holds,
\* a file that cannot be loaded being skipped by the except clause; with
\* no filter every file goes.
clear_removes(file, league_key, data_type) ==
    IF Truthy(league_key)
    THEN json_load_ok(file) /\ dict_get(json_load(file), "league_key") = league_key
    ELSE IF Truthy(data_type)
    THEN json_load_ok(file) /\ dict_get(json_load(file), "data_type") = data_type
    ELSE TRUE

\* A plausible slip: the branch that filters by data type left out, so that
\* clear(data_type=t) clears everything.
clear_without_type_filter(cache, league_key, data_type) ==
    IF Truthy(league_key) /\ Truthy(data_type)
    THEN LET cache_path == _get_cache_key(league_key, data_type) IN
         IF cache_path \in DOMAIN cache
         THEN [cache |-> [p \in DOMAIN cache \ {cache_path} |-> cache[p]], deleted |-> 1]
         ELSE [cache |-> cache, deleted |-> 0]
    ELSE LET gone == {p \in DOMAIN cache : clear_removes(cache[p], league_key, None)}
         IN  [cache |-> [p \in DOMAIN cache \ gone |-> cache[p]],
              deleted |-> Cardinality(gone)]

\* CacheManager.clear: the directory it leaves and the count it returns
clear(cache, league_key, data_type) ==
    IF Truthy(league_key) /\ Truthy(data_type)
    THEN LET cache_path == _get_cache_key(league_key, data_type) IN
         IF cache_path \in DOMAIN cache
         THEN [cache |-> [p \in DOMAIN cache \ {cache_path} |-> cache[p]], deleted |-> 1]
         ELSE [cache |-> cache, deleted |-> 0]
    ELSE LET gone == {p \in DOMAIN cache : clear_removes(cache[p], league_key, data_type)}
         IN  [cache |-> [p \in DOMAIN cache \ gone |-> cache[p]],
              deleted |-> Cardinality(gone)]

ClearLeagueKeys == {"461.l.1", "461.l.2"}

ClearDataTypes == {"league_info", "weekly_data"}

ClearClock == [year |-> 2025, month |-> 3]

\* The file CacheManager.set writes for an entry
StoredFile(league_key, data_type) ==
    CacheSet([cache |-> EmptyCache, mappings |-> << >>, log |-> EmptyLog],
             league_key, data_type, <<[week |-> 1]>>, ClearClock, << >>
            ).cache[_get_cache_key(league_key, data_type)]

\* The directories found: any of the four entries, each as set wrote it or
\* as a file that holds no JSON
ClearCaches ==
    UNION { { [p \in ps |-> IF p \in damaged THEN [text |-> "{"]
                            ELSE StoredFile(p[1], p[2])] : damaged \in SUBSET ps } :
            ps \in SUBSET (ClearLeagueKeys \X ClearDataTypes) }

InitClear ==
    /\ c_now = ClearClock
    /\ c_info = << >>
    /\ c_cache \in ClearCaches
    /\ c_mappings = << >>
    /\ c_op = [name |-> "none"]
    /\ IdleClassifier
    /\ IdleBeats
    /\ IdleLedger
    /\ IdleMapper
    /\ IdleRequest
    /\ IdleParsers
    /\ IdleApp

\* cache_manager.clear(league_key, data_type), an argument left out being None
Clear ==
    \E league_key \in ClearLeagueKeys \cup {None}, data_type \in ClearDataTypes \cup {None} :
        /\ c_cache' = clear(c_cache, league_key, data_type).cache
        /\ c_op' = [name |-> "clear", league_key |-> league_key, data_type |-> data_type,
                    deleted |-> clear(c_cache, league_key, data_type).deleted,
                    cache_before |-> c_cache]
        /\ UNCHANGED <<c_now, c_info, c_mappings, clsVars, beatVars, ledVars, mapVars, reqVars, parseVars, appVars>>

\* cache_manager.set(league_key, data_type, data)
StoreEntry ==
    \E league_key \in ClearLeagueKeys, data_type \in ClearDataTypes :
        /\ c_cache' = (_get_cache_key(league_key, data_type)
                          :> StoredFile(league_key, data_type)) @@ c_cache
        /\ c_op' = [name |-> "set", league_key |-> league_key, data_type |-> data_type]
        /\ UNCHANGED <<c_now, c_info, c_mappings, clsVars, beatVars, ledVars, mapVars, reqVars, parseVars, appVars>>

NextClear == Clear \/ StoreEntry

SpecClear == InitClear /\ [][NextClear]_vars

---------------------------------------------------------------------------
(* SpecMapper: ManagerNicknameMapper with its CSV file.  The file is the   *)
(* function from the (team_name, league_key, season) of a row to its       *)
(* manager_nickname; the process keeps the table it loaded when it was     *)
(* constructed (YahooFantasyAPI.__init__, line 60) and a person may edit    *)
(* the file while the process runs.                                        *)

\* _load_mappings (47-76): the rows whose four fields are all non-empty
_load_mappings(file) ==
    LET complete == {f \in DOMAIN file :
                        /\ Truthy(strip(f[1])) /\ Truthy(strip(f[2]))
                        /\ Truthy(strip(f[3])) /\ Truthy(strip(file[f]))}
    IN  [k \in {_get_key(f[1], f[2], f[3]) : f \in complete} |->
            strip(file[CHOOSE f \in complete : _get_key(f[1], f[2], f[3]) = k])]

\* _save_mappings (125-166): the rows of the file, overwritten by the
\* table in memory (merged_mappings.update(self.mappings))
_save_mappings(file, mappings) ==
    LET existing == [k \in {_get_key(f[1], f[2], f[3]) : f \in DOMAIN file} |->
                       strip(file[CHOOSE f \in DOMAIN file :
                                     _get_key(f[1], f[2], f[3]) = k])]
    IN  mappings @@ existing

\* The file after an operation on the mapper: set_manager_nickname ends in
\* _save_mappings (118-123), and the table in memory changes exactly when
\* set_manager_nickname stored a nickname.
file_after(file, mappings_before, mappings_after) ==
    IF mappings_after /= mappings_before THEN _save_mappings(file, mappings_after)
    ELSE file

MapperTeamNames == {"Foo", " Foo", "Bar", NA, ""}

MapperLeagueKeys == {"461.l.1"}

MapperSeasons == {"461", ""}

\* The raw nickname: hidden, empty, unavailable, or a visible one
MapperNicknames == {HIDDEN, "", NA, "Al"}

\* The file found at start: none (created empty), a row written by hand,
\* a row whose nickname was left empty
MapperFiles ==
    { [k \in {} |-> ""],
      (<<"Foo", "461.l.1", "461">> :> "Bob"),
      (<<"Bar", "461.l.1", "461">> :> "") }

\* A team of the standings payload, with or without a name
MapperTeamInfos ==
    { [team_key |-> "461.l.1.t.1", name |-> "Foo", manager_nickname |-> HIDDEN],
      [team_key |-> "461.l.1.t.1", manager_nickname |-> HIDDEN],
      [team_key |-> "461.l.1.t.2", name |-> "Bar", manager_nickname |-> "Al"] }

\* A league key starts with a game id or with a game code
MapperStandingsKeys == {"461.l.1", "nfl.l.1"}

InitMapper ==
    /\ m_file \in MapperFiles
    /\ m_mappings = _load_mappings(m_file)
    /\ m_op = [name |-> "__init__"]
    /\ m_prev = [name |-> "__init__"]
    /\ IdleClassifier
    /\ IdleBeats
    /\ IdleLedger
    /\ IdleCache
    /\ IdleRequest
    /\ IdleParsers
    /\ IdleApp

\* What an operation leaves: the table in memory, the file, the record of
\* the operation with the file and the table it found.
MapperDone(op, r) ==
    /\ m_mappings' = r.mappings
    /\ m_file' = file_after(m_file, m_mappings, r.mappings)
    /\ m_op' = op @@ [file_before |-> m_file, mappings_before |-> m_mappings]
    /\ m_prev' = [f \in DOMAIN m_op \ {"file_before", "mappings_before"} |-> m_op[f]]

MapperDoneApply(team_name, league_key, season, current_nickname, r) ==
    MapperDone([name |-> "apply_mapping", team_name |-> team_name,
                league_key |-> league_key, season |-> season,
                current_nickname |-> current_nickname, result |-> r.value], r)

MapperDoneParse(team_info, league_key, r) ==
    MapperDone([name |-> "_parse_standings", team_info |-> team_info,
                league_key |-> league_key, result |-> r.value], r)

ApplyMapping ==
    \E team_name \in MapperTeamNames, league_key \in MapperLeagueKeys,
       season \in MapperSeasons, current_nickname \in MapperNicknames :
        /\ MapperDoneApply(team_name, league_key, season, current_nickname,
               apply_mapping(m_mappings, team_name, league_key, season, current_nickname))
        /\ UNCHANGED <<clsVars, beatVars, ledVars, cacheVars, reqVars, parseVars, appVars>>

\* One team of _parse_standings (1680-1704)
ParseStandingsTeam ==
    \E team_info \in MapperTeamInfos, league_key \in MapperStandingsKeys :
        /\ MapperDoneParse(team_info, league_key,
               parse_standings_team(m_mappings, team_info, league_key))
        /\ UNCHANGED <<clsVars, beatVars, ledVars, cacheVars, reqVars, parseVars, appVars>>

\* A person replaces the nickname of a row of the file.
EditedNicknames == {"Bob"}

ManualEdit ==
    /\ \E key \in DOMAIN m_file, manager_nickname \in EditedNicknames :
          /\ m_file[key] /= manager_nickname
          /\ m_file' = [m_file EXCEPT ![key] = manager_nickname]
          /\ m_op' = [name |-> "edit", key |-> key, manager_nickname |-> manager_nickname]
    /\ m_prev' = [f \in DOMAIN m_op \ {"file_before", "mappings_before"} |-> m_op[f]]
    /\ UNCHANGED <<m_mappings, clsVars, beatVars, ledVars, cacheVars, reqVars, parseVars, appVars>>

\* The process is started again: ManagerNicknameMapper.__init__ (22-31)
Restart ==
    /\ m_op.name /= "__init__"
    /\ m_mappings' = _load_mappings(m_file)
    /\ m_op' = [name |-> "__init__"]
    /\ m_prev' = [f \in DOMAIN m_op \ {"file_before", "mappings_before"} |-> m_op[f]]
    /\ UNCHANGED <<m_file, clsVars, beatVars, ledVars, cacheVars, reqVars, parseVars, appVars>>

NextMapper == ApplyMapping \/ ParseStandingsTeam \/ ManualEdit \/ Restart

SpecMapper == InitMapper /\ [][NextMapper]_vars

---------------------------------------------------------------------------
(* YahooFantasyAPI._make_request: one authenticated GET with a token       *)
(* refresh when the provider answers 401.  The session and the OAuth       *)
(* client are the environment: a call consumes a script holding the        *)
(* outcome of each oauth_session.get and of each refresh, in order.        *)

\* What oauth_session.get does: it returns a response with a status code,
\* or raises.  An exception matters to the method only by its message:
\* "raise_auth" is one whose text holds 'unauthorized', '401' or
\* 'token' and 'expired'; "raise_other" is any other (a timeout).
GetStatuses == {"200", "401", "500"}

GetOutcomes == GetStatuses \cup {"raise_auth", "raise_other"}

\* What refresh_access_token / save_tokens / create_authenticated_session
\* do together: they give a new session, or one of them raises.
RefreshOutcomes == {"ok", "raise"}

\* The longest scripts one call can consume
MaxGets == 3

MaxRefreshes == 2

\* for an exception e, the test of lines 166-168 on str(e).lower()
is_token_error(error) == error \in {"raise_auth", "refresh_failed"}

\* response.raise_for_status(); return response
raise_for_status(response, gets, refreshes) ==
    [gets |-> gets, refreshes |-> refreshes,
     result |-> IF response = "200" THEN "returned" ELSE "raised",
     status |-> response]

\* an exception leaving the method
raise_out(gets, refreshes) ==
    [gets |-> gets, refreshes |-> refreshes, result |-> "raised", status |-> None]

\* The handler `except Exception as e` around the first attempt: gets and
\* refreshes count what the try block has consumed of the script.
outer_except(call, error, gets, refreshes) ==
    IF call.retry /\ call.oauth_client /\ is_token_error(error)
    THEN IF call.refreshes[refreshes + 1] = "ok"
         THEN IF call.gets[gets + 1] \in GetStatuses
              THEN raise_for_status(call.gets[gets + 1], gets + 1, refreshes + 1)
              ELSE raise_out(gets + 1, refreshes + 1)
         ELSE raise_out(gets, refreshes + 1)
    ELSE raise_out(gets, refreshes)

\* The try block: the first get and, on a 401, the refresh and second get.
\* `raise Exception("Token expired and refresh failed: ...")` is raised
\* inside the try block, so the handler above receives it.
_make_request(call) ==
    IF call.gets[1] \in GetStatuses
    THEN IF call.gets[1] = "401" /\ call.retry /\ call.oauth_client
         THEN IF call.refreshes[1] = "ok"
              THEN IF call.gets[2] \in GetStatuses
                   THEN raise_for_status(call.gets[2], 2, 1)
                   ELSE outer_except(call, "refresh_failed", 2, 1)
              ELSE outer_except(call, "refresh_failed", 1, 1)
         ELSE raise_for_status(call.gets[1], 1, 0)
    ELSE outer_except(call, call.gets[1], 1, 0)

\* The calls: retry flag, an OAuth client or none, and the provider script
RequestCalls ==
    [retry : BOOLEAN, oauth_client : BOOLEAN,
     gets : [1..MaxGets -> GetOutcomes],
     refreshes : [1..MaxRefreshes -> RefreshOutcomes]]

InitRequest ==
    /\ rq_call = << >>
    /\ rq_out = << >>
    /\ IdleClassifier
    /\ IdleBeats
    /\ IdleLedger
    /\ IdleCache
    /\ IdleMapper
    /\ IdleParsers
    /\ IdleApp

MakeRequest ==
    /\ rq_call = << >>
    /\ \E call \in RequestCalls :
        /\ rq_call' = call
        /\ rq_out' = _make_request(call)
    /\ UNCHANGED <<clsVars, beatVars, ledVars, cacheVars, mapVars, parseVars, appVars>>

NextRequest == MakeRequest

SpecRequest == InitRequest /\ [][NextRequest]_vars

---------------------------------------------------------------------------
(* The entity parsers on the provider's payload.  The payload is JSON: a   *)
(* value is a string, a list or a dictionary, and the parsers probe its    *)
(* type with isinstance.  A value carries its Python type here; a          *)
(* dictionary keeps its numeric keys in the order "0", "1", "2" followed   *)
(* by 'count', as the provider writes them.                                *)

PyStr(s) == [type |-> "str", items |-> s]

PyList(items) == [type |-> "list", items |-> items]

PyDict(items) == [type |-> "dict", items |-> items]

\* the value of a variable the parser initialised to None
PyNone == [type |-> "NoneType", items |-> << >>]

isinstance(v, type) == v.type = type

\* `key in d` for a dictionary d
has_key(d, key) == key \in DOMAIN d.items

\* the keys for which `key != 'count' and key.isdigit()`, in d.keys() order
PayloadDigitKeys == <<"0", "1", "2">>

digit_keys(d) == SelectSeq(PayloadDigitKeys, LAMBDA key : has_key(d, key))

\* `for item in league_obj: if isinstance(item, dict) and entity in item:
\*  ... = item.get(entity, {}); break`
RECURSIVE first_item_with(_, _)
first_item_with(list_items, entity) ==
    IF list_items = << >> THEN PyNone
    ELSE IF isinstance(Head(list_items), "dict") /\ has_key(Head(list_items), entity)
         THEN Head(list_items).items[entity]
         ELSE first_item_with(Tail(list_items), entity)

\* `for key in league_obj.keys(): ... league_data = league_obj.get(key, {});
\*  if isinstance(league_data, dict): ... break`: the first dictionary
\* under a numeric key
RECURSIVE first_league_data(_, _)
first_league_data(league_obj, keys) ==
    IF keys = << >> THEN PyNone
    ELSE IF isinstance(league_obj.items[Head(keys)], "dict")
         THEN league_obj.items[Head(keys)]
         ELSE first_league_data(league_obj, Tail(keys))

\* The numeric-key branch of _parse_scoreboard, _parse_transactions and
\* _parse_teams, on the league_data found: every item of a nested list is
\* looked at.
entity_of_league_data(league_data, entity) ==
    IF ~isinstance(league_data, "dict") THEN PyNone
    ELSE IF has_key(league_data, "league")
    THEN IF isinstance(league_data.items["league"], "list")
         THEN first_item_with(league_data.items["league"].items, entity)
         ELSE IF isinstance(league_data.items["league"], "dict")
                 /\ has_key(league_data.items["league"], entity)
              THEN league_data.items["league"].items[entity]
              ELSE PyNone
    ELSE IF has_key(league_data, entity) THEN league_data.items[entity]
    ELSE PyNone

\* _parse_scoreboard, lines 1826-1849: the list branch reads index 1
scoreboard_of(league_obj) ==
    IF isinstance(league_obj, "list")
    THEN IF Len(league_obj.items) > 1
            /\ isinstance(league_obj.items[2], "dict")
            /\ has_key(league_obj.items[2], "scoreboard")
         THEN league_obj.items[2].items["scoreboard"]
         ELSE PyNone
    ELSE IF isinstance(league_obj, "dict")
    THEN entity_of_league_data(first_league_data(league_obj, digit_keys(league_obj)),
                               "scoreboard")
    ELSE PyNone

\* _parse_transactions (809-834) and _parse_teams (1448-1474): the list
\* branch looks at every item
entity_of(league_obj, entity) ==
    IF isinstance(league_obj, "list")
    THEN first_item_with(league_obj.items, entity)
    ELSE IF isinstance(league_obj, "dict")
    THEN entity_of_league_data(first_league_data(league_obj, digit_keys(league_obj)),
                               entity)
    ELSE PyNone

\* `standings = standings_item.get('standings', {})` and the teams of its
\* first element (lines 1596-1599)
teams_obj_of_standings(standings_item) ==
    IF isinstance(standings_item, "dict") /\ has_key(standings_item, "standings")
    THEN IF isinstance(standings_item.items["standings"], "list")
            /\ Len(standings_item.items["standings"].items) > 0
         THEN IF isinstance(standings_item.items["standings"].items[1], "dict")
                 /\ has_key(standings_item.items["standings"].items[1], "teams")
              THEN standings_item.items["standings"].items[1].items["teams"]
              ELSE PyDict(<< >>)
         ELSE PyNone
    ELSE PyNone

\* the numeric-key branch of _parse_standings on the league_data found
standings_of_league_data(league_data) ==
    IF ~isinstance(league_data, "dict") THEN PyNone
    ELSE IF has_key(league_data, "league")
    THEN IF isinstance(league_data.items["league"], "list")
            /\ Len(league_data.items["league"].items) > 1
         THEN teams_obj_of_standings(league_data.items["league"].items[2])
         ELSE PyNone
    ELSE teams_obj_of_standings(league_data)

\* _parse_standings, lines 1591-1619: teams_obj; both branches read index 1
standings_teams_obj(league_obj) ==
    IF isinstance(league_obj, "list")
    THEN IF Len(league_obj.items) > 1
         THEN teams_obj_of_standings(league_obj.items[2])
         ELSE PyNone
    ELSE IF isinstance(league_obj, "dict")
    THEN standings_of_league_data(first_league_data(league_obj, digit_keys(league_obj)))
    ELSE PyNone

\* `league_raw[0] if isinstance(league_raw[0], dict) else {}`
first_dict(list_items) ==
    IF isinstance(list_items[1], "dict") THEN list_items[1] ELSE PyDict(<< >>)

\* the numeric-key branch of _parse_league_info on the item found
league_info_of_item(league_data_item) ==
    IF ~isinstance(league_data_item, "dict") THEN PyNone
    ELSE IF has_key(league_data_item, "league")
    THEN IF isinstance(league_data_item.items["league"], "list")
            /\ Len(league_data_item.items["league"].items) > 0
         THEN first_dict(league_data_item.items["league"].items)
         ELSE IF isinstance(league_data_item.items["league"], "dict")
              THEN league_data_item.items["league"]
              ELSE PyNone
    ELSE league_data_item

\* _parse_league_info (1401-1433) on fantasy_content['league']:
\* `return league_info if league_info else None`
league_info_of(league_raw) ==
    IF isinstance(league_raw, "list") /\ Len(league_raw.items) > 0
    THEN first_dict(league_raw.items)
    ELSE IF isinstance(league_raw, "dict")
    THEN league_info_of_item(first_league_data(league_raw, digit_keys(league_raw)))
    ELSE PyNone

\* The loop over the numeric keys of a container: the raw record under
\* `child` of every entry that is a dictionary holding it.  What the parser
\* then reads from the raw record does not depend on the league container.
RECURSIVE children_of(_, _, _)
children_of(container, keys, child) ==
    IF keys = << >> THEN << >>
    ELSE (IF isinstance(container.items[Head(keys)], "dict")
             /\ has_key(container.items[Head(keys)], child)
          THEN <<container.items[Head(keys)].items[child]>>
          ELSE << >>)
         \o children_of(container, Tail(keys), child)

\* `if not isinstance(x, dict): return []`, then the loop
records_of(container, child) ==
    IF ~isinstance(container, "dict") THEN << >>
    ELSE children_of(container, digit_keys(container), child)

\* lines 1857-1863: the matchups of the scoreboard, under '0' when present
matchups_of(scoreboard) ==
    IF ~isinstance(scoreboard, "dict") THEN PyNone
    ELSE IF has_key(scoreboard, "0") /\ isinstance(scoreboard.items["0"], "dict")
    THEN IF has_key(scoreboard.items["0"], "matchups")
         THEN scoreboard.items["0"].items["matchups"] ELSE PyDict(<< >>)
    ELSE IF has_key(scoreboard, "matchups") THEN scoreboard.items["matchups"]
    ELSE PyDict(<< >>)

\* The parsers, from fantasy_content['league'] to the raw records
_parse_scoreboard(league_obj) == records_of(matchups_of(scoreboard_of(league_obj)), "matchup")

_parse_transactions(league_obj) == records_of(entity_of(league_obj, "transactions"), "transaction")

_parse_teams(league_obj) == records_of(entity_of(league_obj, "teams"), "team")

standings_records(league_obj) == records_of(standings_teams_obj(league_obj), "team")

\* None for a league dictionary that is empty or missing
league_info_record(league_raw) ==
    IF isinstance(league_info_of(league_raw), "dict")
       /\ DOMAIN league_info_of(league_raw).items /= {}
    THEN <<league_info_of(league_raw)>>
    ELSE << >>

Parsers == {"scoreboard", "standings", "transactions", "teams", "league_info"}

parse(parser, league_obj) ==
    CASE parser = "scoreboard" -> _parse_scoreboard(league_obj)
      [] parser = "standings" -> standings_records(league_obj)
      [] parser = "transactions" -> _parse_transactions(league_obj)
      [] parser = "teams" -> _parse_teams(league_obj)
      [] parser = "league_info" -> league_info_record(league_obj)

(* The payloads: the records of one response, written in either encoding   *)

PayloadRecords == {"r1", "r2", "r3"}

MaxRecords == 2

\* the records of a response, in the provider's order, none twice
PayloadContents ==
    {s \in UNION {[1..n -> PayloadRecords] : n \in 0..MaxRecords} :
        \A i, j \in DOMAIN s : i /= j => s[i] /= s[j]}

\* the list index of the element that holds the entity (index 0 is the
\* league's own fields)
PayloadPositions == 1..3

\* {"0": {child: r1}, "1": {child: r2}, "count": n}
Numbered(records, child) ==
    PyDict([key \in {PayloadDigitKeys[i] : i \in 1..Len(records)} \cup {"count"} |->
              IF key = "count" THEN PyStr("n")
              ELSE PyDict(child :> PyStr(records[CHOOSE i \in 1..Len(records) :
                                                     PayloadDigitKeys[i] = key]))])

\* index 0 of the league list; for the league-info request the records
\* are its fields
LeagueFields(parser, records) ==
    IF parser = "league_info"
    THEN PyDict([key \in {PayloadDigitKeys[i] : i \in 1..Len(records)} |-> PyStr("f")])
    ELSE PyDict([league_key |-> PyStr("461.l.1")])

\* the element of the league list that holds the entity
EntityElement(parser, records) ==
    CASE parser = "scoreboard" ->
            PyDict([scoreboard |->
                PyDict("0" :> PyDict([matchups |-> Numbered(records, "matchup")]))])
      [] parser = "standings" ->
            PyDict([standings |->
                PyList(<<PyDict([teams |-> Numbered(records, "team")])>>)])
      [] parser = "transactions" ->
            PyDict([transactions |-> Numbered(records, "transaction")])
      [] parser = "teams" ->
            PyDict([teams |-> Numbered(records, "team")])
      [] parser = "league_info" ->
            PyDict([settings |-> PyStr("s")])

\* The league list: the league's fields, then the elements of other
\* sub-resources, then the entity's element at index `position`
LeagueList(parser, records, position) ==
    <<LeagueFields(parser, records)>>
    \o [i \in 1..(position - 1) |-> PyDict([settings |-> PyStr("s")])]
    \o <<EntityElement(parser, records)>>

Encodings == {"list", "map"}

\* fantasy_content['league'] as a list, or as a map whose numeric key
\* wraps the same list
Encoded(encoding, league_list) ==
    IF encoding = "list" THEN PyList(league_list)
    ELSE PyDict("0" :> PyDict([league |-> PyList(league_list)])
                @@ "count" :> PyStr("1"))

InitParsers ==
    /\ ps_in = << >>
    /\ ps_out = << >>
    /\ IdleClassifier
    /\ IdleBeats
    /\ IdleLedger
    /\ IdleCache
    /\ IdleMapper
    /\ IdleRequest
    /\ IdleApp

\* One parser on both encodings of a drawn response
Parsed(parser) ==
    /\ ps_in = << >>
    /\ \E records \in PayloadContents, position \in PayloadPositions :
        /\ ps_in' = [parser |-> parser, records |-> records, position |-> position]
        /\ ps_out' = [encoding \in Encodings |->
                        parse(parser, Encoded(encoding,
                                              LeagueList(parser, records, position)))]

ParseScoreboard ==
    /\ Parsed("scoreboard")
    /\ UNCHANGED <<clsVars, beatVars, ledVars, cacheVars, mapVars, reqVars, appVars>>

ParseStandings ==
    /\ Parsed("standings")
    /\ UNCHANGED <<clsVars, beatVars, ledVars, cacheVars, mapVars, reqVars, appVars>>

ParseTransactions ==
    /\ Parsed("transactions")
    /\ UNCHANGED <<clsVars, beatVars, ledVars, cacheVars, mapVars, reqVars, appVars>>

ParseTeams ==
    /\ Parsed("teams")
    /\ UNCHANGED <<clsVars, beatVars, ledVars, cacheVars, mapVars, reqVars, appVars>>

ParseLeagueInfo ==
    /\ Parsed("league_info")
    /\ UNCHANGED <<clsVars, beatVars, ledVars, cacheVars, mapVars, reqVars, appVars>>

NextParsers ==
    \/ ParseScoreboard
    \/ ParseStandings
    \/ ParseTransactions
    \/ ParseTeams
    \/ ParseLeagueInfo

SpecParsers == InitParsers /\ [][NextParsers]_vars

---------------------------------------------------------------------------
(* app.py: the index page.  app.run (line 379) starts the development      *)
(* server, which serves each request in a thread of its own; the threads   *)
(* share the module globals of lines 19-24.  A thread can be suspended     *)
(* between any two statements, and is while a fetch waits for the          *)
(* provider.  A table or league info is written as the league it was       *)
(* fetched for.                                                            *)

AppRequests == {1, 2}

AppLeagues == {"461.l.1", "461.l.2", "461.l.3"}

\* league_info = None, team_stats_df = None, weekly_df = None (lines 21-23)
AppGlobalsAtImport == [league_info |-> None, team_stats_df |-> None, weekly_df |-> None]

\* the locals of index() before load_data returned, and no response yet
NoLocals == [league_info_data |-> None, teams_df |-> None, weekly_data |-> None]

\* Requests for different leagues: request.args.get('league_key')
InitApp ==
    /\ app_globals = AppGlobalsAtImport
    /\ app_req \in {q \in [AppRequests -> [pc : {"arrived"}, league_key : AppLeagues,
                                            locals : {NoLocals}, response : {<< >>}]] :
                      q[1].league_key /= q[2].league_key}
    /\ IdleClassifier
    /\ IdleBeats
    /\ IdleLedger
    /\ IdleCache
    /\ IdleMapper
    /\ IdleRequest
    /\ IdleParsers

\* a request moves to its next statement
at(r, pc, next) == app_req[r].pc = pc /\ app_req' = [app_req EXCEPT ![r].pc = next]

\* index(), lines 125-131: read the query parameter, list the games, call
\* load_data(league_key)
IndexCalled ==
    /\ \E r \in AppRequests : at(r, "arrived", "load_league_info")
    /\ UNCHANGED <<app_globals, clsVars, beatVars, ledVars, cacheVars, mapVars, reqVars, parseVars>>

\* load_data, line 109: league_info = api_client.get_league_info(league_key)
LoadLeagueInfo ==
    /\ \E r \in AppRequests :
        /\ at(r, "load_league_info", "load_team_stats")
        /\ app_globals' = [app_globals EXCEPT !.league_info = app_req[r].league_key]
    /\ UNCHANGED <<clsVars, beatVars, ledVars, cacheVars, mapVars, reqVars, parseVars>>

\* line 112: team_stats_df = api_client.get_teams_stats_dataframe(league_key)
LoadTeamStats ==
    /\ \E r \in AppRequests :
        /\ at(r, "load_team_stats", "load_weekly")
        /\ app_globals' = [app_globals EXCEPT !.team_stats_df = app_req[r].league_key]
    /\ UNCHANGED <<clsVars, beatVars, ledVars, cacheVars, mapVars, reqVars, parseVars>>

\* line 115: weekly_df = api_client.get_weekly_dataframe(league_key)
LoadWeekly ==
    /\ \E r \in AppRequests :
        /\ at(r, "load_weekly", "load_return")
        /\ app_globals' = [app_globals EXCEPT !.weekly_df = app_req[r].league_key]
    /\ UNCHANGED <<clsVars, beatVars, ledVars, cacheVars, mapVars, reqVars, parseVars>>

\* line 117: return league_info, team_stats_df, weekly_df, league_key reads
\* the globals; line 131 binds them to the locals of index()
LoadReturn ==
    /\ \E r \in AppRequests :
        /\ app_req[r].pc = "load_return"
        /\ app_req' = [app_req EXCEPT
                         ![r].pc = "weekly_stats",
                         ![r].locals = [league_info_data |-> app_globals.league_info,
                                        teams_df |-> app_globals.team_stats_df,
                                        weekly_data |-> app_globals.weekly_df]]
    /\ UNCHANGED <<app_globals, clsVars, beatVars, ledVars, cacheVars, mapVars, reqVars, parseVars>>

\* lines 134-137: get_all_teams_weekly_stats(lk) and
\* get_weekly_team_performance_dataframe(lk), two more fetches
WeeklyStats ==
    /\ \E r \in AppRequests : at(r, "weekly_stats", "render")
    /\ UNCHANGED <<app_globals, clsVars, beatVars, ledVars, cacheVars, mapVars, reqVars, parseVars>>

\* lines 140-159: teams_json from the local teams_df, weekly_json from the
\* name weekly_df, which index() does not assign and so is the global
Render ==
    /\ \E r \in AppRequests :
        /\ app_req[r].pc = "render"
        /\ app_req' = [app_req EXCEPT
                         ![r].pc = "done",
                         ![r].response =
                             [league_info |-> app_req[r].locals.league_info_data,
                              teams_data |-> app_req[r].locals.teams_df,
                              weekly_data |-> app_globals.weekly_df,
                              weekly_stats_data |-> app_req[r].league_key,
                              weekly_performance_data |-> app_req[r].league_key,
                              selected_league_key |-> app_req[r].league_key]]
    /\ UNCHANGED <<app_globals, clsVars, beatVars, ledVars, cacheVars, mapVars, reqVars, parseVars>>

NextApp ==
    \/ IndexCalled
    \/ LoadLeagueInfo
    \/ LoadTeamStats
    \/ LoadWeekly
    \/ LoadReturn
    \/ WeeklyStats
    \/ Render

SpecApp == InitApp /\ [][NextApp]_vars

---------------------------------------------------------------------------
(* Claims about the season classifier                                      *)

\* A field that holds a decimal number.
NumericField(d, k) == k \in DOMAIN d /\ \E n \in Numerals : d[k] = ToString(n)

FieldNumber(d, k) == CHOOSE n \in Numerals : d[k] = ToString(n)

YearRulesSayPrior(d, now) ==
    /\ NumericField(d, "season")
    /\ \/ FieldNumber(d, "season") < now.year - 1
       \/ FieldNumber(d, "season") = now.year - 1 /\ now.month > 2

WeekRuleSaysPrior(d) ==
    /\ NumericField(d, "current_week")
    /\ NumericField(d, "end_week")
    /\ FieldNumber(d, "current_week") >= FieldNumber(d, "end_week")

\* C8: for a league info with a numeric season, is_prior_season answers
\* prior exactly when, in this order, the season is more than one year
\* behind, or it is exactly one year behind and the month is past February
\* (whatever the week fields hold, even missing), or current_week >=
\* end_week; otherwise it answers active.
C8_DecisionOrder ==
    (cls_verdict /= "unset" /\ NumericField(cls_info, "season")) =>
        (cls_verdict = "prior" <=>
            \/ FieldNumber(cls_info, "season") < cls_now.year - 1
            \/ /\ FieldNumber(cls_info, "season") = cls_now.year - 1
               /\ cls_now.month > 2
            \/ WeekRuleSaysPrior(cls_info))

\* C8 witness: a season exactly one year behind, classified in month 3 with
\* no usable week fields, came out prior.
C8_Witness ==
    /\ cls_verdict = "prior"
    /\ NumericField(cls_info, "season")
    /\ FieldNumber(cls_info, "season") = cls_now.year - 1
    /\ cls_now.month = 3
    /\ ~NumericField(cls_info, "current_week")

AnyFieldUnusable(d) ==
    \E k \in ClassifierKeys : ~NumericField(d, k)

\* C9 as stated: whenever any of season, current_week, end_week is missing
\* or non-numeric, the verdict is active.
C9_AnyUnusableFieldGivesActive ==
    (cls_verdict /= "unset" /\ AnyFieldUnusable(cls_info)) => cls_verdict = "active"

\* C9 amended: a missing or non-numeric season gives active; a missing or
\* non-numeric current_week or end_week gives active unless one of the two
\* year rules already classifies the league as prior.
C9_UnusableFieldGivesActiveUnlessYearRule ==
    (cls_verdict /= "unset" /\ AnyFieldUnusable(cls_info)) =>
        (cls_verdict = "prior" <=> YearRulesSayPrior(cls_info, cls_now))

\* C9 witness: a current-year season whose current_week is missing was
\* classified active.
C9_Witness ==
    /\ cls_verdict = "active"
    /\ NumericField(cls_info, "season")
    /\ FieldNumber(cls_info, "season") = cls_now.year
    /\ "current_week" \notin DOMAIN cls_info
    /\ NumericField(cls_info, "end_week")

---------------------------------------------------------------------------
(* Claims about the beats-the-field percentage                             *)

\* The teams of a week of the output table with their scores.
BeatSides(week) ==
    {[team_key |-> beat_out[i].team1_key,
      points |-> points_to_float(beat_out[i].team1_points),
      pct |-> beat_out[i].team1_record_percentage_vs_all] :
        i \in {j \in 1..Len(beat_out) : beat_out[j].week = week}}
    \cup
    {[team_key |-> beat_out[i].team2_key,
      points |-> points_to_float(beat_out[i].team2_points),
      pct |-> beat_out[i].team2_record_percentage_vs_all] :
        i \in {j \in 1..Len(beat_out) : beat_out[j].week = week}}

BeatOutWeeks == {beat_out[i].week : i \in 1..Len(beat_out)}

\* C10: for every week and team of the weekly matchup table the percentage
\* equals 100 * (other teams of the week with a strictly lower score) /
\* (teams of the week - 1) and lies in [0, 100]; in a week of exactly two
\* teams the higher scorer gets exactly 100 and the other 0, and on a tie
\* both get 0.
C10_BeatsTheField ==
    \A week \in BeatOutWeeks :
        LET sides == BeatSides(week)
            teams == {s.team_key : s \in sides}
        IN  \A s \in sides :
              LET lower == {o \in sides : o.team_key /= s.team_key
                                           /\ o.points < s.points}
              IN  /\ s.pct.d > 0
                  /\ s.pct.n * (Cardinality(teams) - 1)
                        = 100 * Cardinality(lower) * s.pct.d
                  /\ 0 <= s.pct.n /\ s.pct.n <= 100 * s.pct.d
                  /\ Cardinality(teams) = 2 =>
                        \A o \in sides \ {s} :
                          /\ s.points > o.points =>
                                s.pct.n = 100 * s.pct.d /\ o.pct.n = 0
                          /\ s.points = o.points => s.pct.n = 0 /\ o.pct.n = 0

\* C10 witness: the table holds a week of four teams in which some team
\* beat exactly one of the three others, and a week of two tied teams.
C10_Witness ==
    /\ beat_out /= << >>
    /\ \E week \in BeatOutWeeks :
          /\ Cardinality(BeatSides(week)) = 4
          /\ \E s \in BeatSides(week) : s.pct.n * 3 = 100 * s.pct.d
    /\ \E week \in BeatOutWeeks :
          /\ Cardinality(BeatSides(week)) = 2
          /\ \A s \in BeatSides(week) : s.pct.n = 0

\* The weeks of the table before the current week in which the percentage
\* of a team satisfies a comparison with 50, given as the sign of pct - 50.
WeeksBeforeWithSign(team_key, current_week, sign) ==
    {week \in BeatOutWeeks :
        /\ week < current_week
        /\ \E s \in BeatSides(week) :
              /\ s.team_key = team_key
              /\ \/ sign = 1 /\ s.pct.n > 50 * s.pct.d
                 \/ sign = -1 /\ s.pct.n < 50 * s.pct.d}

\* The count returned for a team; a team without an entry has none.
ExpectedStat(team_key, column) ==
    IF team_key \in DOMAIN beat_exp.expected_stats
    THEN beat_exp.expected_stats[team_key][column] ELSE 0

\* C11: for every team, expected_wins is the number of weeks strictly
\* before the league's current week in which the team's percentage is above
\* 50 and expected_losses the number of such weeks in which it is below 50;
\* the current week and later weeks add to neither.
C11_ExpectedWinsLosses ==
    beat_exp /= << >> =>
        \A team_key \in BeatTeams :
            /\ ExpectedStat(team_key, "expected_wins") =
                  Cardinality(WeeksBeforeWithSign(team_key,
                      int(beat_exp.league_info.current_week), 1))
            /\ ExpectedStat(team_key, "expected_losses") =
                  Cardinality(WeeksBeforeWithSign(team_key,
                      int(beat_exp.league_info.current_week), -1))

\* C11 witness: the current week is 2 and the table holds weeks 1 and 2;
\* a team above 50 in both weeks has one expected win, and a team below 50
\* in both weeks has one expected loss.
C11_Witness ==
    /\ beat_exp /= << >>
    /\ beat_exp.league_info.current_week = "2"
    /\ BeatOutWeeks = {1, 2}
    /\ \E s1 \in BeatSides(1), s2 \in BeatSides(2) :
          /\ s1.team_key = s2.team_key
          /\ s1.pct.n > 50 * s1.pct.d /\ s2.pct.n > 50 * s2.pct.d
          /\ ExpectedStat(s1.team_key, "expected_wins") = 1
    /\ \E s1 \in BeatSides(1), s2 \in BeatSides(2) :
          /\ s1.team_key = s2.team_key
          /\ s1.pct.n < 50 * s1.pct.d /\ s2.pct.n < 50 * s2.pct.d
          /\ ExpectedStat(s1.team_key, "expected_losses") = 1

---------------------------------------------------------------------------
(* Claims about the weekly ledger                                          *)

LedgerDone == led_out /= << >> /\ led_out.called /\ ~led_out.raised

LedgerRows == IF LedgerDone THEN Elems(led_out.value) ELSE {}

LedgerTeamKeys == {LedgerTeams[i].team_key : i \in DOMAIN LedgerTeams}

\* The requested range: the arguments, else the league's start and end week.
RangeStart ==
    IF IsGiven(led_req.start_week) THEN ArgValue(led_req.start_week)
    ELSE NumeralOf[led_info.start_week]

RangeEnd ==
    IF IsGiven(led_req.end_week) THEN ArgValue(led_req.end_week)
    ELSE NumeralOf[led_info.end_week]

\* The week a timestamp is aligned to, stated from the calendar: the anchor
\* is the first Tuesday on or after the start date, the interval start the
\* last Tuesday on or before the day of the timestamp.
AlignedWeek(transaction) ==
    LET day == NumeralOf[transaction.timestamp]
        start_day == DateTable[led_info.start_date]
        anchor == CHOOSE d \in start_day..(start_day + 6) : d % 7 = 1
        interval_start == CHOOSE d \in (day - 6)..day : d % 7 = 1
        week == ((interval_start - anchor) \div 7) + 1
    IN  IF week >= 1 THEN week ELSE 1

\* The teams a transaction affects.
Affects(transaction, team_key) ==
    \E i \in DOMAIN transaction.team_keys : transaction.team_keys[i] = team_key

\* C1: in a freshly computed ledger, for every team and every pair of
\* consecutive weeks w-1, w the move count and the trade count of week w are
\* at least those of week w-1, whatever the order of the transaction list.
C1_CumulativeMonotone ==
    \A a \in LedgerRows, b \in LedgerRows :
        (a.team_key = b.team_key /\ b.week = a.week + 1) =>
            /\ b.number_of_moves >= a.number_of_moves
            /\ b.number_of_trades >= a.number_of_trades

\* C1 witness: a ledger in which a team's move count grows from one week to
\* the next and a team has a trade, computed from a list whose transactions
\* are not in timestamp order.
C1_Witness ==
    /\ LedgerDone
    /\ \E a \in LedgerRows, b \in LedgerRows :
          /\ a.team_key = b.team_key /\ b.week = a.week + 1
          /\ b.number_of_moves > a.number_of_moves
    /\ \E a \in LedgerRows : a.number_of_trades > 0
    /\ Len(led_tx) = 2
    /\ NumeralOf[led_tx[1].timestamp] > NumeralOf[led_tx[2].timestamp]

\* C2: every faab_balance is at most the starting endowment 100, and a
\* team's balance of week w is below that of week w-1 only if a transaction
\* with status 'successful' and faab_bid > 0 affecting the team is aligned
\* to week w.
C2_FaabBalance ==
    /\ \A a \in LedgerRows : a.faab_balance <= 100
    /\ \A a \in LedgerRows, b \in LedgerRows :
          (a.team_key = b.team_key /\ b.week = a.week + 1
             /\ b.faab_balance < a.faab_balance) =>
              \E i \in DOMAIN led_tx :
                  /\ led_tx[i].status = "successful"
                  /\ led_tx[i].faab_bid > 0
                  /\ Affects(led_tx[i], a.team_key)
                  /\ AlignedWeek(led_tx[i]) = b.week

\* C2 witness: a team's balance dropped from one week to the next while the
\* list also holds a failed positive bid.
C2_Witness ==
    /\ LedgerDone
    /\ \E a \in LedgerRows, b \in LedgerRows :
          /\ a.team_key = b.team_key /\ b.week = a.week + 1
          /\ b.faab_balance < a.faab_balance
    /\ \E i \in DOMAIN led_tx :
          led_tx[i].status = "failed" /\ led_tx[i].faab_bid > 0

\* The number of add, drop and add/drop transactions affecting a team whose
\* aligned week k satisfies start <= k <= w.
MovesUpTo(team_key, w) ==
    Cardinality({i \in DOMAIN led_tx :
                    /\ led_tx[i].type \in {"add", "drop", "add/drop"}
                    /\ Affects(led_tx[i], team_key)
                    /\ RangeStart <= AlignedWeek(led_tx[i])
                    /\ AlignedWeek(led_tx[i]) <= w})

MoveCountsRight ==
    \A r \in LedgerRows : r.number_of_moves = MovesUpTo(r.team_key, r.week)

WeeksEmitted(team_key) == {r.week : r \in {x \in LedgerRows : x.team_key = team_key}}

\* C3 as stated: the ledger holds a record for every week from start
\* through the end of the requested range for every team, and each move
\* count is the number of add/drop transactions aligned to start..w.
C3_EveryWeekOfRange ==
    LedgerDone =>
        /\ \A tk \in LedgerTeamKeys : WeeksEmitted(tk) = RangeStart..RangeEnd
        /\ MoveCountsRight

\* C3 amended: the ledger holds a record for every week from start through
\* min(end, current_week) for every team (no record for a week after the
\* league's current week), and each move count is the number of add/drop
\* transactions affecting the team whose aligned week k has start <= k <= w.
C3_EveryWeekUpToCurrent ==
    LedgerDone =>
        /\ \A tk \in LedgerTeamKeys :
              WeeksEmitted(tk) =
                  {w \in RangeStart..RangeEnd : w <= NumeralOf[led_info.current_week]}
        /\ MoveCountsRight

\* C3 witness: a single add/drop aligned to week 3, no range given, current
\* week 3: the team's moves are 0 in weeks 1-2 and 1 in week 3.
C3_Witness ==
    /\ LedgerDone
    /\ Len(led_tx) = 1
    /\ led_tx[1].type \in {"add", "drop", "add/drop"}
    /\ AlignedWeek(led_tx[1]) = 3
    /\ led_req.start_week = NoArg /\ led_req.end_week = NoArg
    /\ \E a \in LedgerRows, b \in LedgerRows, c \in LedgerRows :
          /\ a.team_key = b.team_key /\ b.team_key = c.team_key
          /\ a.week = 1 /\ b.week = 2 /\ c.week = 3
          /\ a.number_of_moves = 0 /\ b.number_of_moves = 0
          /\ c.number_of_moves = 1

---------------------------------------------------------------------------
(* Claims about the cached fetch operations                                *)

\* The ordered rules of the classifier, stated on the fields themselves.
RulesSayPrior(d, now) == YearRulesSayPrior(d, now) \/ WeekRuleSaysPrior(d)

CacheEntry(data_type) == c_cache[_get_cache_key(CacheLeagueKey, data_type)].json

IsCached(data_type) == _get_cache_key(CacheLeagueKey, data_type) \in DOMAIN c_cache

\* C4: every CacheManager.set of a fetch operation follows an
\* is_prior_season call of the same operation, on the league info the
\* operation holds, that answered true; the info written for is prior by
\* the classifier's rules at that date, so nothing is written for a league
\* classified active.
C4_SetOnlyWhenClassifiedPrior ==
    \A s \in c_op.log.sets :
        /\ [league_info |-> s.league_info, verdict |-> TRUE] \in c_op.log.verdicts
        /\ RulesSayPrior(s.league_info, c_op.now)

\* C4 witness: a forced get_teams_stats_dataframe on a prior league wrote
\* the league info, the weekly matchup table and the team table.
C4_Witness ==
    /\ c_op.name = "get_teams_stats_dataframe"
    /\ c_op.force_refresh
    /\ {s.data_type : s \in c_op.log.sets} = {"league_info", "weekly_data", "teams_stats"}
    /\ RulesSayPrior(c_op.info, c_op.now)

\* C5: from an empty cache, whatever operations ran before and however the
\* clock moved, an operation reads a payload from the cache only for a
\* league whose info is prior by the classifier's rules at that date; for
\* an active league every read misses, get_league_info and
\* get_teams_stats_dataframe included.
C5_ActiveLeagueNeverServedFromCache ==
    c_op.log.hits /= {} => RulesSayPrior(c_op.info, c_op.now)

\* C5 witness: a non-forced get_teams_stats_dataframe on an active league
\* looked into the cache, found nothing and asked the provider for the
\* league and the standings.
C5_Witness ==
    /\ c_op.name = "get_teams_stats_dataframe"
    /\ ~c_op.force_refresh
    /\ ~RulesSayPrior(c_op.info, c_op.now)
    /\ {"teams_stats", "league_info"} \subseteq c_op.log.gets
    /\ c_op.log.hits = {}
    /\ {"league", "standings"} \subseteq c_op.log.requests

\* The operation that serves a table, called without force and without a
\* week range, answered from the cache entry of that table.
ServedFromCache(name, data_type) ==
    /\ c_op.name = name
    /\ ~c_op.force_refresh
    /\ c_op.start_week = NoArg /\ c_op.end_week = NoArg
    /\ data_type \in c_op.log.hits
    /\ IsCached(data_type)

\* C6: a call served from the cache returns the table of the cache entry,
\* which is the table the computing call returned when it wrote the entry,
\* record for record and field for field: the weekly ledger, the team
\* table and the weekly matchup table.
C6_CachedReadIdentical ==
    /\ ServedFromCache("get_all_teams_weekly_stats", "weekly_stats")
          => c_op.result.value = CacheEntry("weekly_stats").data
    /\ ServedFromCache("get_teams_stats_dataframe", "teams_stats")
          => c_op.result.value = CacheEntry("teams_stats").data
    /\ ServedFromCache("get_weekly_dataframe", "weekly_data")
          => c_op.result.value = CacheEntry("weekly_data").data

\* C7: an operation called with force_refresh=True reads no cache entry,
\* in itself or in the calls it makes.
C7_ForcedReadsNoCacheEntry ==
    c_op.force_refresh => c_op.log.hits = {}

---------------------------------------------------------------------------
(* Claims about the nickname mapper                                        *)

AppliedMapping == m_op /= << >> /\ m_op.name = "apply_mapping"

\* The key of the identity apply_mapping was called for.
AppliedKey == <<strip(m_op.team_name), strip(m_op.league_key), strip(m_op.season)>>

\* A mapping is stored for a key: in the table of the process, or as a row
\* of the file that has a nickname.
StoredBefore(key) ==
    \/ key \in DOMAIN m_op.mappings_before
    \/ key \in DOMAIN m_op.file_before /\ m_op.file_before[key] /= ""

\* The guard of apply_mapping on what names the row (line 188).
UsableIdentity(team_name, league_key, season) ==
    /\ team_name /= "" /\ team_name /= NA
    /\ league_key /= "" /\ season /= ""

\* The file holds the placeholder row for the key, and no other new row.
PlaceholderPersisted(key) ==
    /\ key \in DOMAIN m_file
    /\ m_file[key] = "FIXME"
    /\ DOMAIN m_file = DOMAIN m_op.file_before \cup {key}

SameIdentityBefore ==
    /\ m_prev.name = "apply_mapping"
    /\ m_prev.current_nickname = HIDDEN
    /\ <<strip(m_prev.team_name), strip(m_prev.league_key), strip(m_prev.season)>>
          = AppliedKey

\* C13 as stated: two successive apply_mapping calls for the same hidden
\* identity return the same placeholder and leave one row for the key; and
\* after a person edits the nickname of that row in the file (the row of a
\* placeholder the process stored), the next apply_mapping call for the
\* identity returns the edited value.
C13_IdempotentAndEditSeen ==
    (AppliedMapping /\ m_op.current_nickname = HIDDEN) =>
        /\ (SameIdentityBefore /\ m_prev.result = "FIXME") =>
              m_op.result = "FIXME" /\ AppliedKey \in DOMAIN m_file
        /\ (/\ m_prev.name = "edit" /\ m_prev.key = AppliedKey
            /\ AppliedKey \in DOMAIN m_op.mappings_before
            /\ m_op.mappings_before[AppliedKey] = "FIXME") =>
              m_op.result = m_prev.manager_nickname

\* The raw nickname handed to the last operation was the hidden sentinel.
ResolvedHidden ==
    /\ m_op /= << >>
    /\ \/ m_op.name = "apply_mapping" /\ m_op.current_nickname = HIDDEN
       \/ /\ m_op.name = "_parse_standings"
          /\ m_op.team_info.manager_nickname = HIDDEN

\* The nickname the last operation put out.
ResolvedNickname ==
    IF m_op.name = "apply_mapping" THEN m_op.result ELSE m_op.result.manager_nickname

\* The identity the last operation resolved can name a row: the team has a
\* name other than "N/A", and the season (for the standings parser, the
\* part of the league key before the first dot) is non-empty (for the
\* parser, all digits).
ResolvableIdentity ==
    IF m_op.name = "apply_mapping"
    THEN UsableIdentity(m_op.team_name, m_op.league_key, m_op.season)
    ELSE /\ "name" \in DOMAIN m_op.team_info
         /\ UsableIdentity(m_op.team_info.name, m_op.league_key, "461")
         /\ m_op.league_key \in {"461.l.1", "461.l.2"}

AppliedKeyOfParse == <<m_op.team_info.name, m_op.league_key, "461">>

---------------------------------------------------------------------------
(* Claims about provider failures                                          *)

FaultsDone == "down" \in DOMAIN c_op

\* The operation requested an endpoint that was down.
CalledDown ==
    \E endpoint \in c_op.down :
        (IF endpoint \in {"scoreboard1", "scoreboard2", "scoreboard3"}
         THEN "scoreboard" ELSE endpoint) \in c_op.log.requests

\* C15 as stated: when a provider call (league info, teams, standings,
\* transactions or a week's scoreboard) raises during a table-producing
\* operation, the operation raises too: it neither returns a table nor
\* falls back to another data path.
C15_ProviderFailurePropagates ==
    (FaultsDone /\ CalledDown) => c_op.result.raised

---------------------------------------------------------------------------
(* Claims about the completeness of the weekly matchup table               *)

\* The weeks start .. min(end, current_week) of a call, by its arguments and
\* the league info the operation held.
WeeksAskedFor(op, league_info) ==
    (IF IsGiven(op.start_week) THEN ArgValue(op.start_week)
     ELSE int(dict_get_default(league_info, "start_week", "1")))
    ..
    Min(IF IsGiven(op.end_week) THEN ArgValue(op.end_week)
        ELSE int(dict_get_default(league_info, "end_week",
                     dict_get_default(league_info, "current_week", "1"))),
        int(dict_get_default(league_info, "current_week", "1")))

TableWeeks(table) == {table[i].week : i \in DOMAIN table}

\* C16 as stated: get_weekly_dataframe returns either the empty-result
\* marker or a table that holds the matchups of every week in
\* start..min(end, current_week); no week of those is missing from a table
\* it returns.
C16_NoWeekMissing ==
    (/\ c_op.name = "get_weekly_dataframe"
     /\ ~c_op.result.raised
     /\ ~IsNone(c_op.result)) =>
        \A v \in c_op.log.verdicts :
            WeeksAskedFor(c_op, v.league_info) \subseteq TableWeeks(c_op.result.value)

---------------------------------------------------------------------------
(* Claims about unparseable fields of a transaction                        *)

\* The transactions of the provider's list whose timestamp is a number.
WithTimestamp == SelectSeq(led_tx, LAMBDA t : int_ok(t.timestamp))

\* C17 as stated: when one transaction of the list has a missing or
\* non-numeric timestamp, get_all_teams_weekly_stats still returns the
\* ledger, that transaction counted nowhere and every other one counted.
C17_UnparseableTimestampSkipped ==
    (led_out.called /\ Len(WithTimestamp) = Len(led_tx) - 1) =>
        /\ ~led_out.raised
        /\ led_out.value =
              compute_weekly_stats(LedgerLeagueKey, led_info, LedgerTeams, WithTimestamp,
                                   led_req.start_week, led_req.end_week).value

---------------------------------------------------------------------------
(* Claims about damaged cache files                                        *)

\* The operation of c_op, run again with every endpoint up on a given cache.
Rerun(cache) ==
    LET W == [cache |-> cache, mappings |-> c_op.mappings_before, log |-> EmptyLog]
        env == [now |-> c_op.now, info |-> c_op.info, down |-> {}]
    IN  CASE c_op.name = "get_all_teams_weekly_stats" ->
               get_all_teams_weekly_stats(W, CacheLeagueKey, c_op.start_week,
                                          c_op.end_week, c_op.force_refresh, env)
          [] c_op.name = "get_weekly_dataframe" ->
               get_weekly_dataframe(W, CacheLeagueKey, c_op.start_week,
                                    c_op.end_week, c_op.force_refresh, env)
          [] c_op.name = "get_weekly_team_performance_dataframe" ->
               get_weekly_team_performance_dataframe(W, CacheLeagueKey,
                   c_op.start_week, c_op.end_week, c_op.force_refresh, env)
          [] c_op.name = "get_teams_stats_dataframe" ->
               get_teams_stats_dataframe(W, CacheLeagueKey, c_op.force_refresh, env)

\* The operation returned, read, requested and stored what r did; a file
\* it did not store over is left as found.
SameOutcome(r) ==
    /\ c_op.result = r.value
    /\ c_op.log = r.W.log
    /\ DOMAIN c_cache = DOMAIN r.W.cache \cup DOMAIN c_op.cache_before
    /\ \A cache_path \in DOMAIN c_cache :
          c_cache[cache_path] = IF cache_path \in DOMAIN r.W.cache
                                THEN r.W.cache[cache_path]
                                ELSE c_op.cache_before[cache_path]

\* C18: CacheManager.get gives the miss value for a file that is
\* unreadable, holds no JSON or lacks 'data' or 'cached_at': the calling
\* operation does not raise, and it returns, reads, requests and caches
\* what it does on a plain miss, the file being absent.
C18_DamagedEntryIsAMiss ==
    (FaultsDone /\ c_op.down = {} /\ c_op.cache_before /= EmptyCache) =>
        /\ ~c_op.result.raised
        /\ SameOutcome(Rerun(EmptyCache))

\* C18 witness: an operation read a damaged league-info file, fetched the
\* league info from the provider and, the league being prior, replaced the
\* file by a valid entry.
C18_Witness ==
    /\ FaultsDone
    /\ c_op.down = {}
    /\ DOMAIN c_op.cache_before = {_get_cache_key(CacheLeagueKey, "league_info")}
    /\ ~json_load_ok(c_op.cache_before[_get_cache_key(CacheLeagueKey, "league_info")])
    /\ "league_info" \in c_op.log.gets
    /\ "league" \in c_op.log.requests
    /\ json_load_ok(c_cache[_get_cache_key(CacheLeagueKey, "league_info")])

---------------------------------------------------------------------------
(* Claims about the alignment of timestamps to weeks                       *)

\* The first Tuesday on or after the league's start date
Anchor ==
    CHOOSE d \in DateTable[led_info.start_date]..(DateTable[led_info.start_date] + 6) :
        d % 7 = 1

\* The most recent Tuesday on or before a day
IntervalStart(day) == CHOOSE d \in (day - 6)..day : d % 7 = 1

\* floor((interval start - anchor) / 7) + 1, at least 1
WeekByRule(day) ==
    IF ((IntervalStart(day) - Anchor) \div 7) + 1 < 1 THEN 1
    ELSE ((IntervalStart(day) - Anchor) \div 7) + 1

---------------------------------------------------------------------------
(* Claims about the counting of trades                                     *)

\* The trader and the tradee of a trade
Participants(transaction) == Elems(transaction.trade_teams)

\* The trades a team takes part in that are aligned to a week from
\* first_week through w
TradesOf(team_key, first_week, w) ==
    {i \in DOMAIN led_tx :
        /\ led_tx[i].type = "trade"
        /\ team_key \in Participants(led_tx[i])
        /\ first_week <= WeekByRule(NumeralOf[led_tx[i].timestamp])
        /\ WeekByRule(NumeralOf[led_tx[i].timestamp]) <= w}

\* C20 as stated: every trade aligned to a week k adds exactly 1 to the
\* trade count of its trader and of its tradee in every week from k on and
\* nothing to any other team's, a team key recorded more than once being
\* counted once: the trade count of team T at week w is the number of
\* trades of T aligned to a week up to w.
C20_TradeCountedOncePerTeam ==
    \A r \in LedgerRows :
        r.number_of_trades = Cardinality(TradesOf(r.team_key, 1, r.week))

\* C20 amended: every trade aligned to a week k of the requested range adds
\* exactly 1 to the trade count of its trader and of its tradee in every
\* week of the ledger from k on and nothing to any other team's, a team key
\* recorded more than once being counted once; a trade aligned to a week
\* before the start of the range adds nothing.
C20_TradeInRangeCountedOncePerTeam ==
    \A r \in LedgerRows :
        r.number_of_trades = Cardinality(TradesOf(r.team_key, RangeStart, r.week))

\* C20 witness: a single trade aligned to week 2 whose trader and tradee
\* are the same key, which its team list therefore holds three times: that
\* team has 0 trades in week 1 and 1 in week 2, the other team none.
C20_Witness ==
    /\ LedgerDone
    /\ Len(led_tx) = 1
    /\ led_tx[1].type = "trade"
    /\ led_tx[1].trade_teams = <<"461.l.1.t.1", "461.l.1.t.1">>
    /\ led_tx[1].team_keys = <<"461.l.1.t.1", "461.l.1.t.1", "461.l.1.t.1">>
    /\ WeekByRule(NumeralOf[led_tx[1].timestamp]) = 2
    /\ \E a \in LedgerRows, b \in LedgerRows, c \in LedgerRows :
          /\ a.team_key = "461.l.1.t.1" /\ a.week = 1 /\ a.number_of_trades = 0
          /\ b.team_key = "461.l.1.t.1" /\ b.week = 2 /\ b.number_of_trades = 1
          /\ c.team_key = "461.l.1.t.2" /\ c.week = 2 /\ c.number_of_trades = 0

---------------------------------------------------------------------------
(* Claims about the classifier over time                                   *)

\* C29: for a fixed league info, a verdict of prior at some date is followed
\* by a verdict of prior at every later date.
C29_PriorStaysPrior ==
    \A a \in cls_past, b \in cls_past :
        (ClockLater(a.now, b.now) /\ a.verdict = "prior") => b.verdict = "prior"

\* C29 witness: a league of season 2024 whose weeks do not say finished was
\* classified active in February 2025, prior in March 2025 (the season of
\* the year before, past February) and prior in February 2026 (a season
\* more than a year old).
C29_Witness ==
    /\ dict_get(cls_info, "season") = "2024"
    /\ ~WeekRuleSaysPrior(cls_info)
    /\ [now |-> [year |-> 2025, month |-> 2], verdict |-> "active"] \in cls_past
    /\ [now |-> [year |-> 2025, month |-> 3], verdict |-> "prior"] \in cls_past
    /\ [now |-> [year |-> 2026, month |-> 2], verdict |-> "prior"] \in cls_past

---------------------------------------------------------------------------
(* Claims about the order of the weeks                                     *)

\* The week get_all_teams_weekly_stats computes for a transaction of the
\* list, from the start date of the league info
ComputedWeek(i) ==
    week_of_timestamp(led_tx[i].timestamp,
                      ArgValue(first_tuesday_of(led_info.start_date)))

\* C30: the week computed for a timestamp is monotone in the timestamp (a
\* transaction that is not later than another is not given a later week),
\* and two timestamps of the same Tuesday-through-Monday interval are given
\* the same week, for each start date.
C30_WeekMonotone ==
    LedgerDone =>
        \A i \in DOMAIN led_tx, j \in DOMAIN led_tx :
            /\ int(led_tx[i].timestamp) <= int(led_tx[j].timestamp)
                  => ComputedWeek(i) <= ComputedWeek(j)
            /\ IntervalStart(int(led_tx[i].timestamp))
                  = IntervalStart(int(led_tx[j].timestamp))
                  => ComputedWeek(i) = ComputedWeek(j)

\* C30 witness: a list, not in timestamp order, of the Monday that closes
\* an interval and the Tuesday that opened it, both given week 2, computed
\* into a ledger whose week 1 counts neither and whose week 2 counts both.
C30_Witness ==
    /\ LedgerDone
    /\ led_info.start_date = "2024-09-05"
    /\ led_req.start_week = NoArg
    /\ Len(led_tx) = 2
    /\ led_tx[1].timestamp = "21" /\ led_tx[2].timestamp = "15"
    /\ ComputedWeek(1) = 2 /\ ComputedWeek(2) = 2
    /\ led_tx[1].type = "drop" /\ led_tx[2].type = "add"
    /\ led_tx[1].team_keys = <<"461.l.1.t.1">>
    /\ led_tx[2].team_keys = <<"461.l.1.t.1">>
    /\ \E a \in LedgerRows, b \in LedgerRows :
          /\ a.team_key = "461.l.1.t.1" /\ a.week = 1 /\ a.number_of_moves = 0
          /\ b.team_key = "461.l.1.t.1" /\ b.week = 2 /\ b.number_of_moves = 2

---------------------------------------------------------------------------
(* Claims about week ranges and the cache                                  *)

\* A non-forced call of one of the two operations that take a week range,
\* on a league classified prior, that returned a table.
RangedCallOnPrior ==
    /\ c_op.name \in {"get_all_teams_weekly_stats", "get_weekly_dataframe"}
    /\ ~c_op.force_refresh
    /\ ~c_op.result.raised
    /\ ~IsNone(c_op.result)
    /\ \E v \in c_op.log.verdicts : v.verdict

\* C25 as stated: for a prior-season league a non-forced
\* get_all_teams_weekly_stats or get_weekly_dataframe returns records for
\* exactly the weeks it requested, whatever ranges earlier calls requested.
C25_ExactlyTheWeeksRequested ==
    RangedCallOnPrior =>
        \A v \in c_op.log.verdicts :
            TableWeeks(c_op.result.value) = WeeksAskedFor(c_op, v.league_info)

---------------------------------------------------------------------------
(* Claims about a cache that has been filled                               *)

\* The cache entry each operation writes its result to
EntryOf ==
    [name \in {"get_league_info", "get_teams_stats_dataframe",
               "get_weekly_dataframe", "get_all_teams_weekly_stats"} |->
        CASE name = "get_league_info" -> "league_info"
          [] name = "get_teams_stats_dataframe" -> "teams_stats"
          [] name = "get_weekly_dataframe" -> "weekly_data"
          [] name = "get_all_teams_weekly_stats" -> "weekly_stats"]

\* The four entries are in the cache directory.
AllFourCached ==
    \A name \in DOMAIN EntryOf : _get_cache_key(CacheLeagueKey, EntryOf[name]) \in DOMAIN c_cache

\* A successful non-forced call, with a non-empty result, of one of the four
\* operations on a league it held to be prior
FillingCall(op) ==
    /\ op.name \in DOMAIN EntryOf
    /\ ~op.force_refresh
    /\ ~op.result.raised /\ ~IsNone(op.result) /\ op.result.value /= << >>
    /\ \/ \E v \in op.log.verdicts : v.verdict
       \/ "league_info" \in op.log.hits

---------------------------------------------------------------------------
(* Claims about tables built while the provider failed                     *)

\* A week's scoreboard request of the operation raised.
ScoreboardFailed ==
    /\ FaultsDone
    /\ "scoreboard" \in c_op.log.requests
    /\ c_op.down \cap {"scoreboard1", "scoreboard2", "scoreboard3"} /= {}

\* C26 as stated: when a week's scoreboard fetch raises during
\* get_weekly_dataframe on a prior-season league, no 'weekly_data' entry is
\* written from the incomplete table.
C26_IncompleteTableNotCached ==
    (ScoreboardFailed /\ c_op.name = "get_weekly_dataframe") =>
        /\ \A s \in c_op.log.sets : s.data_type /= "weekly_data"
        /\ ~IsCached("weekly_data")

---------------------------------------------------------------------------
(* Claims about human edits of the nickname file                           *)

\* The last step was a resolver call of the running process.
ResolverCalled == m_op.name \in {"apply_mapping", "_parse_standings"}

\* C27 as stated: a row of the persisted table that holds a human-edited
\* nickname, not the placeholder, is not changed back to the placeholder
\* by a later resolver call of the running process that rewrites the file.
C27_EditedRowNotReverted ==
    ResolverCalled =>
        \A key \in DOMAIN m_op.file_before :
            m_op.file_before[key] \in EditedNicknames =>
                (key \in DOMAIN m_file /\ m_file[key] /= "FIXME")

---------------------------------------------------------------------------
(* Claims about clearing the cache                                         *)

\* The entries of a directory: the files get can read
EntriesOf(cache) ==
    {p \in DOMAIN cache :
        CacheGet([cache |-> cache, mappings |-> << >>, log |-> EmptyLog],
                 p[1], p[2]).value /= NoArg}

\* The entries clear(league_key, data_type) is to remove, by the league and
\* the type they were stored for
ToRemove(cache, league_key, data_type) ==
    {p \in EntriesOf(cache) :
        /\ league_key /= None => p[1] = league_key
        /\ data_type /= None => p[2] = data_type}

\* C23: clear(league_key, data_type) removes exactly that entry,
\* clear(league_key) every entry of that league and none of another,
\* clear(data_type=t) every entry of that type and no other, clear() all
\* entries; the count returned is the number of files removed, and every
\* other entry is left as it was, readable by get.
C23_ClearRemovesExactly ==
    c_op.name = "clear" =>
        /\ EntriesOf(c_op.cache_before) \ EntriesOf(c_cache)
              = ToRemove(c_op.cache_before, c_op.league_key, c_op.data_type)
        /\ c_op.deleted = Cardinality(DOMAIN c_op.cache_before \ DOMAIN c_cache)
        /\ DOMAIN c_cache \subseteq DOMAIN c_op.cache_before
        /\ \A p \in EntriesOf(c_cache) : c_cache[p] = c_op.cache_before[p]

\* C23 witness: clear(data_type='weekly_data') on a directory holding the
\* four entries removed the two weekly tables, one of each league, returned
\* 2 and left the two league infos.
C23_Witness ==
    /\ c_op.name = "clear"
    /\ c_op.league_key = None /\ c_op.data_type = "weekly_data"
    /\ EntriesOf(c_op.cache_before) = ClearLeagueKeys \X ClearDataTypes
    /\ c_op.deleted = 2
    /\ EntriesOf(c_cache) = ClearLeagueKeys \X {"league_info"}

---------------------------------------------------------------------------
(* C22: the refresh-and-retry of _make_request                             *)

\* C22: one _make_request call refreshes the token at most once and sends
\* the request at most twice, and ends with a response or an exception,
\* whatever the session and the refresh answer; with retry=False or with
\* no OAuth client it never refreshes.
C22_OneRefreshTwoSends ==
    rq_call /= << >> =>
        /\ rq_out.result \in {"returned", "raised"}
        /\ rq_out.refreshes <= 1
        /\ rq_out.gets <= 2
        /\ (~rq_call.retry \/ ~rq_call.oauth_client) => rq_out.refreshes = 0

---------------------------------------------------------------------------
(* C21: the two encodings of the league container                          *)

\* C21: each entity parser returns the same records for the list encoding
\* and for the numeric-keyed map encoding of one response, wherever in the
\* league list the entity's element sits.
C21_SameRecordsForBothEncodings ==
    ps_in /= << >> => ps_out["list"] = ps_out["map"]

---------------------------------------------------------------------------
(* C28: concurrent requests to the index page                              *)

\* C28: however two requests to the index page for different leagues
\* interleave, the weekly matchup data of a response is that of the league
\* the request selected.
C28_ResponseOfSelectedLeague ==
    \A r \in DOMAIN app_req :
        app_req[r].pc = "done" =>
            app_req[r].response.weekly_data = app_req[r].league_key

=============================================================================
